---- MODULE Spec2Model ----
(***************************************************************************)
(* Model of the roboticsFpl serverless functions: the auto-sub lineup      *)
(* resolver (simulateAutoSubs), the per-player contribution loop, the      *)
(* what-if branch replay and freeze-point list, the season-data handler    *)
(* and the shared retrieval utilities (fetchWithRetry, fetchPicksSafe,     *)
(* batchFetch).                                                            *)
(*                                                                         *)
(* A pick is a record [element, position, multiplier].  A gameweek's       *)
(* player table (playerDataForGW / gwData) is a function whose DOMAIN is   *)
(* the set of players that have a record; a JavaScript lookup of a player  *)
(* outside the DOMAIN yields undefined.                                    *)
(***************************************************************************)
EXTENDS Integers, Sequences, FiniteSets, TLC

VARIABLES
    pc,            \* position of the running function / handler
    picks,         \* simulateAutoSubs: the picks argument
    playerData,    \* simulateAutoSubs: the playerDataForGW argument
    lineup,        \* simulateAutoSubs: the returned effectiveLineup
    upstream,      \* the request and what the FPL API answers to it
    picksMap,      \* what-if handler: picksMap
    gwPlayerData,  \* what-if handler: gwPlayerData
    allFreezeGWs,  \* what-if handler: allFreezeGWs
    fi,            \* what-if handler: index of the branch loop in allFreezeGWs
    locals,        \* what-if handler: the locals of the last branch iteration
    branches,      \* what-if handler: branches
    response,      \* the response sent by a handler, or NoResponse
    managerPicks,  \* contributions handler: picksByManager[managerId]
    gwi,           \* contributions handler: index of the loop over finishedGWs
    effectivePicks,\* contributions handler: effectivePicks of the last iteration
    playerTotals,  \* contributions handler: playerTotals[managerId]
    autoSubTotals, \* season-data handler: autoSubTotals[managerId]
    transferCostTotals, \* season-data handler: transferCostTotals[managerId]
    call,          \* fetchWithRetry / fetchPicksSafe: the running call
    ti,            \* batchFetch: the loop variable i
    running,       \* batchFetch: the tasks started and not yet settled
    settled,       \* batchFetch: the tasks settled, in the order they settled
    results,       \* batchFetch: results
    sleeps         \* batchFetch: the number of delays taken

resolverVars == <<picks, playerData, lineup>>
whatIfVars == <<upstream, picksMap, gwPlayerData, allFreezeGWs, fi, locals,
                branches, response>>
contribVars == <<managerPicks, gwi, effectivePicks, playerTotals>>
seasonVars == <<autoSubTotals, transferCostTotals>>
fetchVars == <<call>>
batchVars == <<ti, running, settled, results, sleeps>>
sharedVars == <<seasonVars, fetchVars, batchVars>>
vars == <<pc, picks, playerData, lineup, upstream, picksMap, gwPlayerData,
          allFreezeGWs, fi, locals, branches, response, managerPicks, gwi,
          effectivePicks, playerTotals, autoSubTotals, transferCostTotals,
          call, ti, running, settled, results, sleeps>>

(***************************************************************************)
(* Bounds of the model.                                                    *)
(***************************************************************************)
\* largest number of starters without minutes in a resolver input
MaxOut == 2
\* largest current gameweek of a what-if request
MaxGW == 3
\* largest number of gameweeks in which the manager made transfers
MaxTransfers == 2
\* the most transfer records of a transfer history given to the freeze-point
\* computation alone
MaxRecords == 4
\* the tasks handed to batchFetch are at most MaxTasks, in batches of at most
\* MaxBatchSize
MaxTasks == 5
MaxBatchSize == 3

(***************************************************************************)
(* Program constants: the slot ranges of simulateAutoSubs.                 *)
(***************************************************************************)
FirstStarter == 1
LastStarter == 11
FirstBench == 12
LastBench == 15

StarterSlots == FirstStarter..LastStarter
BenchSlots == FirstBench..LastBench
Slots == FirstStarter..LastBench

(***************************************************************************)
(* Small helpers over sequences and sets.                                  *)
(***************************************************************************)
Range(s) == {s[i] : i \in DOMAIN s}

RECURSIVE SumSeq(_)
SumSeq(s) == IF s = <<>> THEN 0 ELSE Head(s) + SumSeq(Tail(s))

Min(S) == CHOOSE x \in S : \A y \in S : x <= y

(***************************************************************************)
(* simulateAutoSubs                                                        *)
(***************************************************************************)
\* picks.filter(p => p.position >= lo && p.position <= hi)
FilterSlots(ps, lo, hi) ==
    SelectSeq(ps, LAMBDA p : p.position >= lo /\ p.position <= hi)

\* Array.prototype.sort((a, b) => a.position - b.position): a stable sort,
\* written as an insertion sort.
RECURSIVE InsertByPosition(_, _)
InsertByPosition(sorted, p) ==
    IF sorted = <<>> THEN <<p>>
    ELSE IF sorted[Len(sorted)].position <= p.position THEN Append(sorted, p)
    ELSE Append(InsertByPosition(SubSeq(sorted, 1, Len(sorted) - 1), p),
                sorted[Len(sorted)])

RECURSIVE InsertionSort(_)
InsertionSort(ps) ==
    IF ps = <<>> THEN <<>>
    ELSE InsertByPosition(InsertionSort(SubSeq(ps, 1, Len(ps) - 1)), ps[Len(ps)])

\* mutant: the sort is dropped, the filtered picks stay in input order
SortByPosition_Unsorted(ps) == ps

SortByPosition(ps) == InsertionSort(ps)

\* mutant: a player without a record counts as having played
MinutesOf_AbsentPlayed(playerDataForGW, element) ==
    IF element \in DOMAIN playerDataForGW
    THEN playerDataForGW[element].minutes ELSE 90

\* const d = playerDataForGW[el]; const minutes = d ? d.minutes : 0;
MinutesOf(playerDataForGW, element) ==
    IF element \in DOMAIN playerDataForGW
    THEN playerDataForGW[element].minutes ELSE 0

\* mutant: a starter who played is entered with multiplier 1
StarterEntry_UnitMultiplier(starter) ==
    [element |-> starter.element, multiplier |-> 1]

\* effectiveLineup.push({ element: starter.element, multiplier: starter.multiplier })
StarterEntry(starter) ==
    [element |-> starter.element, multiplier |-> starter.multiplier]

\* mutant: the substitute keeps its own (bench) multiplier
SubEntry_BenchMultiplier(benchPlayer, starter) ==
    [element |-> benchPlayer.element, multiplier |-> benchPlayer.multiplier]

\* effectiveLineup.push({ element: benchPlayer.element, multiplier: starter.multiplier })
SubEntry(benchPlayer, starter) ==
    [element |-> benchPlayer.element, multiplier |-> starter.multiplier]

\* mutant: the used set is never consulted
IsUsed_Never(usedBenchPlayers, benchPlayer) == FALSE

\* usedBenchPlayers.has(benchPlayer.element)
IsUsed(usedBenchPlayers, benchPlayer) == benchPlayer.element \in usedBenchPlayers

\* mutant: the substitute is not recorded as used
MarkUsed_Forget(usedBenchPlayers, benchPlayer) == usedBenchPlayers

\* usedBenchPlayers.add(benchPlayer.element)
MarkUsed(usedBenchPlayers, benchPlayer) == usedBenchPlayers \cup {benchPlayer.element}

\* mutant: a starter that did not play and found no substitute counts for nothing
UnsubbedEntry_ZeroMultiplier(starter) ==
    [element |-> starter.element, multiplier |-> 0]

\* if (!subbed) effectiveLineup.push({ element: starter.element, multiplier: starter.multiplier })
UnsubbedEntry(starter) ==
    [element |-> starter.element, multiplier |-> starter.multiplier]

\* The inner loop over the bench: the index of the first bench player that
\* is not used and has minutes > 0, or 0 when the loop ends with
\* subbed = false.
RECURSIVE FindSub(_, _, _, _)
FindSub(bench, j, usedBenchPlayers, playerDataForGW) ==
    IF j > Len(bench) THEN 0
    ELSE IF IsUsed(usedBenchPlayers, bench[j])
         THEN FindSub(bench, j + 1, usedBenchPlayers, playerDataForGW)
    ELSE IF MinutesOf(playerDataForGW, bench[j].element) > 0 THEN j
    ELSE FindSub(bench, j + 1, usedBenchPlayers, playerDataForGW)

\* The outer loop over the starters, from starter i on.
RECURSIVE AutoSubLoop(_, _, _, _, _, _)
AutoSubLoop(starters, bench, playerDataForGW, i, usedBenchPlayers, effectiveLineup) ==
    IF i > Len(starters) THEN effectiveLineup
    ELSE LET starter == starters[i]
             j == FindSub(bench, 1, usedBenchPlayers, playerDataForGW)
         IN  IF MinutesOf(playerDataForGW, starter.element) > 0
             THEN AutoSubLoop(starters, bench, playerDataForGW, i + 1,
                              usedBenchPlayers,
                              Append(effectiveLineup, StarterEntry(starter)))
             ELSE IF j > 0
             THEN AutoSubLoop(starters, bench, playerDataForGW, i + 1,
                              MarkUsed(usedBenchPlayers, bench[j]),
                              Append(effectiveLineup, SubEntry(bench[j], starter)))
             ELSE AutoSubLoop(starters, bench, playerDataForGW, i + 1,
                              usedBenchPlayers,
                              Append(effectiveLineup, UnsubbedEntry(starter)))

\* mutant: the set of used bench players is not empty at the start of a
\* call, it still holds the first bench player from an earlier call
simulateAutoSubs_StaleUsedSet(frozenPicks, playerDataForGW) ==
    LET starters == SortByPosition(FilterSlots(frozenPicks, FirstStarter, LastStarter))
        bench == SortByPosition(FilterSlots(frozenPicks, FirstBench, LastBench))
    IN  AutoSubLoop(starters, bench, playerDataForGW, 1, {bench[1].element}, <<>>)

\* const usedBenchPlayers = new Set(); const effectiveLineup = [];
simulateAutoSubs(frozenPicks, playerDataForGW) ==
    LET starters == SortByPosition(FilterSlots(frozenPicks, FirstStarter, LastStarter))
        bench == SortByPosition(FilterSlots(frozenPicks, FirstBench, LastBench))
    IN  AutoSubLoop(starters, bench, playerDataForGW, 1, {}, <<>>)

\* mutant: the argument array itself is sorted (frozenPicks.sort(...)
\* without the filter in front)
PicksAfterResolve_SortInPlace(frozenPicks) == SortByPosition(frozenPicks)

\* What a call of simulateAutoSubs leaves in the array it was given.
\* .filter() returns a new array and .sort() sorts that new array in place;
\* the lineup entries are new objects ({ element, multiplier }); nothing is
\* assigned to frozenPicks, to one of its elements or to a field of a pick.
PicksAfterResolve(frozenPicks) == frozenPicks

(***************************************************************************)
(* Inputs: squads, multiplier profiles, player tables.                     *)
(***************************************************************************)
\* the squads tried: two assignments of the players to the slots
Squads == {1, 2}

\* The 15 players of a squad are the players 100..114, assigned to the
\* slots by a different permutation in each squad.
SquadStride(sq) == <<7, 4, 2, 11, 13, 8, 14, 1>>[((sq - 1) % 8) + 1]
ElementOf(sq, pos) == 100 + ((pos * SquadStride(sq)) % 15)

\* The captain's slot of a squad.
CaptainSlot(sq) == <<3, 9, 1, 11>>[((sq - 1) % 4) + 1]

\* Multiplier profiles of a picks record:
\*   "plain"  captain 2, other starters 1, bench 0
\*   "3xc"    triple captain: captain 3
\*   "bboost" bench boost: bench players have multiplier 1
\*   "zero"   as plain, and the starter after the captain has multiplier 0
Profiles == {"plain", "3xc", "bboost", "zero"}

MultiplierOf(sq, profile, pos) ==
    IF pos >= FirstBench THEN (IF profile = "bboost" THEN 1 ELSE 0)
    ELSE IF pos = CaptainSlot(sq) THEN (IF profile = "3xc" THEN 3 ELSE 2)
    ELSE IF profile = "zero" /\ pos = (CaptainSlot(sq) % LastStarter) + 1 THEN 0
    ELSE 1

\* Upstream lists the picks in slot order; even squads are given in reverse
\* order, so that the resolver's sort has work to do.
SlotAt(sq, i) == IF sq % 2 = 0 THEN LastBench + 1 - i ELSE i

MakePicks(sq, profile) ==
    [i \in Slots |->
        [element |-> ElementOf(sq, SlotAt(sq, i)),
         position |-> SlotAt(sq, i),
         multiplier |-> MultiplierOf(sq, profile, SlotAt(sq, i))]]

PickInputs == {MakePicks(sq, profile) : sq \in Squads, profile \in Profiles}

\* total_points of a player in a table: between -2 and 6, not a function
\* of the slot.
GenPoints(element, salt) == ((element * 5 + salt * 2) % 9) - 2

PickAt(ps, pos) == CHOOSE p \in Range(ps) : p.position = pos

\* A player table for given picks: the starters in the slots outZero have
\* a record with 0 minutes, those in outAbsent have no record, the bench
\* player in slot b has benchState[b]: "absent" (no record), "zero"
\* (0 minutes) or "played".
MakeTable(ps, outZero, outAbsent, benchState, salt) ==
    LET absentSlots == outAbsent \cup {b \in BenchSlots : benchState[b] = "absent"}
        zeroSlots == outZero \cup {b \in BenchSlots : benchState[b] = "zero"}
        present == {p.element : p \in {q \in Range(ps) : q.position \notin absentSlots}}
        slotOf(e) == (CHOOSE p \in Range(ps) : p.element = e).position
    IN  [e \in present |->
            IF slotOf(e) \in zeroSlots
            THEN [points |-> 0, minutes |-> 0]
            ELSE [points |-> GenPoints(e, salt), minutes |-> 90]]

OutSets == {S \in SUBSET StarterSlots : Cardinality(S) <= MaxOut}
BenchStates == [BenchSlots -> {"absent", "zero", "played"}]

(***************************************************************************)
(* The what-if handler (get-what-if): freeze points, chip normalisation,   *)
(* branch replay.                                                          *)
(***************************************************************************)
\* JavaScript null (picksMap[gw] = null) and "no response sent yet"
Null == [null |-> TRUE]
NoResponse == [status |-> 0]

\* data.picks && Array.isArray(data.picks)
HasPicks(data) == "picks" \in DOMAIN data

\* picksMap[gw] is neither undefined (gw was not fetched) nor null
Truthy(map, gw) == gw \in DOMAIN map /\ map[gw] # Null

\* picksMap[gw]?.entry_history
HasHistory(map, gw) == Truthy(map, gw) /\ "entry_history" \in DOMAIN map[gw]

\* [...new Set(xs)]: the first occurrence of each value, in order
RECURSIVE Unique(_)
Unique(xs) ==
    IF xs = <<>> THEN <<>>
    ELSE LET front == Unique(SubSeq(xs, 1, Len(xs) - 1))
             x == xs[Len(xs)]
         IN  IF x \in Range(front) THEN front ELSE Append(front, x)

\* .sort((a, b) => a - b)
RECURSIVE InsertNum(_, _)
InsertNum(sorted, x) ==
    IF sorted = <<>> THEN <<x>>
    ELSE IF x < Head(sorted) THEN <<x>> \o sorted
    ELSE <<Head(sorted)>> \o InsertNum(Tail(sorted), x)

RECURSIVE SortNum(_)
SortNum(xs) ==
    IF xs = <<>> THEN <<>>
    ELSE InsertNum(SortNum(SubSeq(xs, 1, Len(xs) - 1)), xs[Len(xs)])

\* bootstrapData.events.find(e => e.is_current).id
CurrentGW(events) ==
    LET first == CHOOSE i \in DOMAIN events :
                    /\ events[i].is_current
                    /\ \A j \in 1..(i - 1) : ~events[j].is_current
    IN  events[first].id

\* fetchWithRetry(url, retries = 3, delay = 1000)
Retries == 3

\* what a call that threw leaves behind
Thrown == [threw |-> TRUE]

\* response.ok
ResponseOk(res) == res.status >= 200 /\ res.status <= 299

\* The loop "for (attempt = 1; attempt <= retries; attempt++)" from attempt
\* on, answers[a] being what the endpoint answers to attempt a: the first ok
\* response is returned; when no attempt is ok the call throws.
RECURSIVE FetchAttempts(_, _, _)
FetchAttempts(answers, attempt, retries) ==
    IF attempt > retries THEN Thrown
    ELSE IF ResponseOk(answers[attempt]) THEN answers[attempt]
    ELSE FetchAttempts(answers, attempt + 1, retries)

fetchWithRetry(answers) == FetchAttempts(answers, 1, Retries)

\* mutant: the gameweeks of the transfers are sorted without being made
\* unique
TransferGWs_NoSet(transfersData) ==
    SortNum([i \in DOMAIN transfersData |-> transfersData[i].event])

\* const transferGWs = [...new Set(transfersData.map(t => t.event))].sort(...)
TransferGWs(transfersData) ==
    SortNum(Unique([i \in DOMAIN transfersData |-> transfersData[i].event]))

\* the gameweeks 1..currentGW whose picks record has active_chip 'freehit'
FreeHitGWs(map, currentGW) ==
    {gw \in 1..currentGW : Truthy(map, gw) /\ map[gw].active_chip = "freehit"}

\* mutant: the free-hit filter is applied to the transfer gameweeks only,
\* gameweek 1 is always a freeze point
AllFreezeGWs_FirstUnfiltered(transferGWs, freeHitGWs) ==
    SortNum(<<1>> \o SelectSeq(SelectSeq(transferGWs, LAMBDA gw : gw # 1),
                               LAMBDA gw : gw \notin freeHitGWs))

\* [1, ...transferGWs.filter(gw => gw !== 1)].filter(gw => !freeHitGWs.has(gw)).sort(...)
AllFreezeGWs(transferGWs, freeHitGWs) ==
    SortNum(SelectSeq(<<1>> \o SelectSeq(transferGWs, LAMBDA gw : gw # 1),
                      LAMBDA gw : gw \notin freeHitGWs))

\* mutant: triple captain is kept in the later gameweeks
NormalizedMultiplier_KeepTriple(p) ==
    IF p.position >= FirstBench THEN 0 ELSE p.multiplier

\* p.position >= 12 ? 0 : (p.multiplier === 3 ? 2 : p.multiplier)
NormalizedMultiplier(p) ==
    IF p.position >= FirstBench THEN 0
    ELSE IF p.multiplier = 3 THEN 2 ELSE p.multiplier

\* frozenPicks.map(p => ({ ...p, multiplier: ... }))
NormalizePicks(frozenPicks) ==
    [i \in DOMAIN frozenPicks |->
        [frozenPicks[i] EXCEPT !.multiplier = NormalizedMultiplier(frozenPicks[i])]]

\* mutant: the multiplier is assigned to the pick itself
\* (p.multiplier = ...; return p)
PicksAfterNormalize_AssignInPlace(frozenPicks) == NormalizePicks(frozenPicks)

\* What building normalizedPicks leaves in frozenPicks: .map() returns a new
\* array and the callback returns a new object ({ ...p, multiplier }), so the
\* picks stored in picksMap keep their multipliers.
PicksAfterNormalize(frozenPicks) == frozenPicks

\* mutant: the base is the total recorded for the freeze gameweek itself
BasePoints_OwnGameweek(map, freezeGW) ==
    IF freezeGW > 1 /\ HasHistory(map, freezeGW)
    THEN map[freezeGW].entry_history.total_points
    ELSE 0

\* let basePoints = 0; if (freezeGW > 1 && picksMap[freezeGW - 1]?.entry_history) ...
BasePoints(map, freezeGW) ==
    IF freezeGW > 1 /\ HasHistory(map, freezeGW - 1)
    THEN map[freezeGW - 1].entry_history.total_points
    ELSE 0

\* mutant: a player without a record makes the lookup of its points fail
\* over to a default of 1
RawPoints_AbsentOne(gwData, element) ==
    IF element \in DOMAIN gwData THEN gwData[element].points ELSE 1

\* const pData = gwPlayerData[gw][player.element]; rawPoints = pData ? pData.points : 0
RawPoints(gwData, element) ==
    IF element \in DOMAIN gwData THEN gwData[element].points ELSE 0

\* for (const player of effectiveLineup) gwPoints += rawPoints * player.multiplier
RECURSIVE GwPoints(_, _)
GwPoints(effectiveLineup, gwData) ==
    IF effectiveLineup = <<>> THEN 0
    ELSE RawPoints(gwData, Head(effectiveLineup).element) * Head(effectiveLineup).multiplier
            + GwPoints(Tail(effectiveLineup), gwData)

\* mutant: the normalized picks are used for the freeze gameweek too
PicksForGW_AlwaysNormalized(gw, freezeGW, frozenPicks, normalizedPicks) ==
    normalizedPicks

\* mutant: the frozen picks, chip multipliers included, are used for every
\* gameweek of the branch
PicksForGW_AlwaysFrozen(gw, freezeGW, frozenPicks, normalizedPicks) ==
    frozenPicks

\* const picksForGW = (gw === freezeGW) ? frozenPicks : normalizedPicks
PicksForGW(gw, freezeGW, frozenPicks, normalizedPicks) ==
    IF gw = freezeGW THEN frozenPicks ELSE normalizedPicks

\* The replay loop "for (gw = freezeGW; gw <= currentGW; gw++)" from gw on.
\* The result has one record per iteration: the entry pushed to branchData
\* (gw, points) and the iteration's locals (hasData, lineup, gwPoints).
RECURSIVE ReplayLoop(_, _, _, _, _, _, _)
ReplayLoop(gw, currentGW, freezeGW, frozenPicks, normalizedPicks, data, runningTotal) ==
    IF gw > currentGW THEN <<>>
    ELSE IF gw \notin DOMAIN data
    THEN <<[gw |-> gw, points |-> runningTotal, hasData |-> FALSE,
            lineup |-> <<>>, gwPoints |-> 0]>>
         \o ReplayLoop(gw + 1, currentGW, freezeGW, frozenPicks, normalizedPicks,
                       data, runningTotal)
    ELSE LET picksForGW == PicksForGW(gw, freezeGW, frozenPicks, normalizedPicks)
             effectiveLineup == simulateAutoSubs(picksForGW, data[gw])
             gwPoints == GwPoints(effectiveLineup, data[gw])
         IN  <<[gw |-> gw, points |-> runningTotal + gwPoints, hasData |-> TRUE,
                lineup |-> effectiveLineup, gwPoints |-> gwPoints]>>
             \o ReplayLoop(gw + 1, currentGW, freezeGW, frozenPicks, normalizedPicks,
                           data, runningTotal + gwPoints)

\* branchData: the { gw, points } entries of the replay
BranchData(replay) ==
    [i \in DOMAIN replay |-> [gw |-> replay[i].gw, points |-> replay[i].points]]

\* `GW${freezeGW} freeze`
Label(freezeGW) == <<"GW", freezeGW, " freeze">>

NoLocals == [freezeGW |-> 0, skipped |-> TRUE]

\* The body of the branch loop for a freeze point whose picks are there: the
\* locals of the iteration.
ComputeBranch(freezeGW, map, data, currentGW) ==
    LET frozenPicks == map[freezeGW].picks
        normalizedPicks == NormalizePicks(frozenPicks)
        basePoints == BasePoints(map, freezeGW)
    IN  [freezeGW |-> freezeGW, skipped |-> FALSE,
         frozenPicks |-> frozenPicks,
         normalizedPicks |-> normalizedPicks,
         basePoints |-> basePoints,
         replay |-> ReplayLoop(freezeGW, currentGW, freezeGW, frozenPicks,
                               normalizedPicks, data, basePoints)]

\* !frozenPicksData || !frozenPicksData.picks
PicksAbsent(map, freezeGW) == ~Truthy(map, freezeGW) \/ ~HasPicks(map[freezeGW])

\* mutant: a freeze point without picks gets an empty branch instead of
\* being skipped
BranchIteration_EmptyBranch(freezeGW, map, data, currentGW) ==
    IF PicksAbsent(map, freezeGW)
    THEN [freezeGW |-> freezeGW, skipped |-> FALSE, frozenPicks |-> <<>>,
          normalizedPicks |-> <<>>, basePoints |-> 0, replay |-> <<>>]
    ELSE ComputeBranch(freezeGW, map, data, currentGW)

\* One iteration of "for (const freezeGW of allFreezeGWs)":
\* if (!frozenPicksData || !frozenPicksData.picks) continue; ...
BranchIteration(freezeGW, map, data, currentGW) ==
    IF PicksAbsent(map, freezeGW)
    THEN [freezeGW |-> freezeGW, skipped |-> TRUE]
    ELSE ComputeBranch(freezeGW, map, data, currentGW)

\* { freezeGW, label: `GW${freezeGW} freeze`, data: branchData }
BranchOf(iteration) ==
    [freezeGW |-> iteration.freezeGW,
     label |-> Label(iteration.freezeGW),
     data |-> BranchData(iteration.replay)]

\* mutant: the new branch is put in front of the list
PushBranch_Unshift(branchList, branch) == <<branch>> \o branchList

\* mutant: a branch is only kept when it comes after the branches pushed so far
PushBranch_AscendingOnly(branchList, branch) ==
    IF branchList # <<>> /\ branchList[Len(branchList)].freezeGW > branch.freezeGW
    THEN branchList
    ELSE Append(branchList, branch)

\* branches.push({ freezeGW, label, data })
PushBranch(branchList, branch) == Append(branchList, branch)

\* the branch list after an iteration: "continue" leaves it as it is
AfterIteration(branchList, iteration) ==
    IF iteration.skipped THEN branchList
    ELSE PushBranch(branchList, BranchOf(iteration))

\* The whole loop "for (const freezeGW of allFreezeGWs)" over the freeze
\* points freezeGWs, started with the branches in branchList.
RECURSIVE BranchLoop(_, _, _, _, _)
BranchLoop(freezeGWs, map, data, currentGW, branchList) ==
    IF freezeGWs = <<>> THEN branchList
    ELSE BranchLoop(Tail(freezeGWs), map, data, currentGW,
                    AfterIteration(branchList,
                                   BranchIteration(Head(freezeGWs), map, data,
                                                   currentGW)))

(***************************************************************************)
(* Upstream answers of a what-if request.                                  *)
(***************************************************************************)
\* active_chip is one of "none", "3xc", "bboost", "freehit", "wildcard"
ProfileOfChip(chip) ==
    CASE chip = "3xc" -> "3xc"
      [] chip = "bboost" -> "bboost"
      [] chip = "wildcard" -> "zero"
      [] OTHER -> "plain"

\* the squad a manager fields in a gameweek
SquadOfGW(gw) == ((gw - 1) % Cardinality(Squads)) + 1

\* the manager's actual cumulative total after a gameweek
ActualTotal(gw) == 40 * gw + 3

\* The picks endpoint of a gameweek: a record with picks, chip and history,
\* or a body without a picks array (chip "nopicks": answered with status 200,
\* chip "404": answered with status 404).
UpstreamPicks(gw, chip) ==
    IF chip \in {"nopicks", "404"} THEN [detail |-> "Not found."]
    ELSE [picks |-> MakePicks(SquadOfGW(gw), ProfileOfChip(chip)),
          active_chip |-> chip,
          entry_history |-> [total_points |-> ActualTotal(gw)]]

\* The live tables tried, given by the slots of squad 1 whose players did
\* not play:
\*   1  everybody played
\*   2  the captain has 0 minutes; bench: 12 zero, 13 played, 14 absent, 15 played
\*   3  the captain and slot 5 have no record; bench: only 14 played, 12 absent
\*   4  the captain has 0 minutes and nobody on the bench played (a gameweek
\*      in progress)
LiveTable(kind, gw) ==
    LET ref == MakePicks(1, "plain")
        k == ((kind - 1) % 4) + 1
        out == <<{}, {CaptainSlot(1)}, {CaptainSlot(1), 5}, {CaptainSlot(1)}>>[k]
        outZero == IF k = 3 THEN {} ELSE out
        outAbsent == IF k = 3 THEN out ELSE {}
        bench == << <<"played", "played", "played", "played">>,
                    <<"zero", "played", "absent", "played">>,
                    <<"absent", "zero", "played", "zero">>,
                    <<"zero", "absent", "zero", "zero">> >>[k]
    IN  MakeTable(ref, outZero, outAbsent,
                  [b \in BenchSlots |-> bench[b - FirstBench + 1]], gw)

\* what one gameweek can look like upstream: chip of the picks record and
\* kind of the live table; with kind 0 the live endpoint has no data for the
\* gameweek and answers 404
Scenarios ==
    {<<"none", 1>>, <<"wildcard", 3>>, <<"3xc", 1>>, <<"3xc", 2>>,
     <<"bboost", 1>>, <<"freehit", 2>>, <<"nopicks", 1>>, <<"404", 1>>,
     <<"none", 4>>, <<"none", 0>>}
NoLiveData == <<"none", 0>>

\* the scenario of a gameweek that is being played: only the current
\* gameweek can be in it, the earlier ones are finished
InProgress == <<"none", 4>>
InProgressLast(sc) ==
    \A gw \in DOMAIN sc : sc[gw] = InProgress => gw = Len(sc)

\* the upstream answers, tabulated once
ScenarioChips == {sc[1] : sc \in Scenarios}
ScenarioTables == {sc[2] : sc \in Scenarios} \ {0}
PicksAnswers ==
    [gw \in 1..MaxGW |-> [chip \in ScenarioChips |-> UpstreamPicks(gw, chip)]]
LiveAnswers ==
    [gw \in 1..MaxGW |-> [kind \in ScenarioTables |-> LiveTable(kind, gw)]]

\* The bootstrap events when gameweek cg is the current one: the earlier
\* gameweeks are finished, the later ones are not, and the current one is
\* finished or still being played.
BootstrapEvents(cg, currentFinished) ==
    [id \in 1..(cg + 1) |->
        [id |-> id,
         is_current |-> (id = cg),
         finished |-> (id < cg \/ (id = cg /\ currentFinished))]]

\* what the picks and the live endpoint answer for a gameweek, when upstream
\* is in the scenario up.answers[gw]
PicksBody(up, gw) == PicksAnswers[gw][up.answers[gw][1]]
PicksStatus(up, gw) == IF up.answers[gw][1] = "404" THEN 404 ELSE 200
\* the picks endpoint answers every attempt of a call alike
PicksAttempts(up, gw) ==
    [attempt \in 1..Retries |->
        [status |-> PicksStatus(up, gw), body |-> PicksBody(up, gw)]]
LiveBody(up, gw) ==
    IF up.answers[gw] = NoLiveData THEN [detail |-> "Not found."]
    ELSE [elements |-> LiveAnswers[gw][up.answers[gw][2]]]
LiveStatus(up, gw) == IF up.answers[gw] = NoLiveData THEN 404 ELSE 200
\* the live endpoint answers every attempt of a call alike
LiveAttempts(up, gw) ==
    [attempt \in 1..Retries |->
        [status |-> LiveStatus(up, gw), body |-> LiveBody(up, gw)]]

RECURSIVE SeqsUpTo(_, _)
SeqsUpTo(S, n) ==
    IF n = 0 THEN {<<>>}
    ELSE LET shorter == SeqsUpTo(S, n - 1)
         IN  shorter \cup {Append(q, x) : q \in shorter, x \in S}

\* the transfer records of the gameweeks in q: two transfers in an even
\* gameweek, one in an odd gameweek
RECURSIVE TransferRecords(_)
TransferRecords(q) ==
    IF q = <<>> THEN <<>>
    ELSE (IF Head(q) % 2 = 0
          THEN <<[event |-> Head(q)], [event |-> Head(q)]>>
          ELSE <<[event |-> Head(q)]>>) \o TransferRecords(Tail(q))

\* transfer histories: transfers in up to MaxTransfers gameweeks, latest
\* first as upstream lists them; the squad of gameweek 1 is not made of
\* transfers, and a transfer made after the current deadline belongs to the
\* next gameweek
TransferLists(currentGW) ==
    {TransferRecords(q) :
        q \in {r \in SeqsUpTo(2..(currentGW + 1), MaxTransfers) :
                  \A i \in 1..(Len(r) - 1) : r[i] > r[i + 1]}}

\* a chip can be played once
OnceChips == {"3xc", "bboost", "freehit", "wildcard"}
ChipsOnce(sc) ==
    \A chip \in OnceChips : Cardinality({gw \in DOMAIN sc : sc[gw][1] = chip}) <= 1

\* a manager lacks at most one picks record in each of the two ways
MissingAnswers == {"nopicks", "404"}
MissingOnce(sc) ==
    /\ \A chip \in MissingAnswers :
           Cardinality({gw \in DOMAIN sc : sc[gw][1] = chip}) <= 1
    /\ Cardinality({gw \in DOMAIN sc : sc[gw] = NoLiveData}) <= 1

(***************************************************************************)
(* The variables of a function or handler that is not running.             *)
(***************************************************************************)
IdleWhatIf ==
    /\ upstream = Null
    /\ picksMap = <<>>
    /\ gwPlayerData = <<>>
    /\ allFreezeGWs = <<>>
    /\ fi = 0
    /\ locals = NoLocals
    /\ branches = <<>>
    /\ response = NoResponse

IdleResolver ==
    /\ picks = <<>>
    /\ playerData = <<>>
    /\ lineup = <<>>

IdleContrib ==
    /\ managerPicks = <<>>
    /\ gwi = 0
    /\ effectivePicks = <<>>
    /\ playerTotals = <<>>

IdleSeason ==
    /\ autoSubTotals = 0
    /\ transferCostTotals = 0

IdleFetch == call = [attempt |-> 0, fetches |-> 0, waits |-> <<>>, result |-> Null]

IdleBatch ==
    /\ ti = 0
    /\ running = {}
    /\ settled = <<>>
    /\ results = <<>>
    /\ sleeps = 0

IdleShared ==
    /\ IdleSeason
    /\ IdleFetch
    /\ IdleBatch

(***************************************************************************)
(* Specification of the resolver alone: the inputs are drawn in Init and   *)
(* Resolve applies simulateAutoSubs to them.                               *)
(***************************************************************************)
InitResolver ==
    /\ pc = "input"
    /\ picks \in PickInputs
    /\ \E out \in OutSets, benchState \in BenchStates :
          \* starters out in an odd slot have a record with 0 minutes, those
          \* in an even slot have no record
          playerData = MakeTable(picks, {o \in out : o % 2 = 1},
                                 {o \in out : o % 2 = 0}, benchState, 0)
    /\ lineup = <<>>
    /\ IdleWhatIf
    /\ IdleContrib
    /\ IdleShared

Resolve ==
    /\ pc = "input"
    /\ lineup' = simulateAutoSubs(picks, playerData)
    /\ picks' = PicksAfterResolve(picks)
    /\ pc' = "resolved"
    /\ UNCHANGED playerData
    /\ UNCHANGED whatIfVars
    /\ UNCHANGED contribVars
    /\ UNCHANGED sharedVars

NextResolver == Resolve

SpecResolver == InitResolver /\ [][NextResolver]_vars

(***************************************************************************)
(* Specification of a what-if request.                                     *)
(***************************************************************************)
\* req.query: which of leagueId and managerId the request carries
Queries == [leagueId : BOOLEAN, managerId : BOOLEAN]
CompleteQuery == [leagueId |-> TRUE, managerId |-> TRUE]

InitWhatIf ==
    /\ pc = "request"
    /\ \E cg \in 1..MaxGW, query \in Queries :
          \E sc \in {x \in [1..cg -> Scenarios] :
                        ChipsOnce(x) /\ MissingOnce(x) /\ InProgressLast(x)},
             tr \in TransferLists(cg) :
              \* a request that is answered before anything is fetched is
              \* tried with one upstream only
              /\ query # CompleteQuery =>
                    (cg = 1 /\ sc[1] = <<"none", 1>> /\ tr = <<>>)
              /\ upstream = [query |-> query,
                             events |-> BootstrapEvents(cg, sc[cg] # InProgress),
                             transfers |-> tr,
                             answers |-> sc]
    /\ picksMap = <<>>
    /\ gwPlayerData = <<>>
    /\ allFreezeGWs = <<>>
    /\ fi = 0
    /\ locals = NoLocals
    /\ branches = <<>>
    /\ response = NoResponse
    /\ IdleResolver
    /\ IdleShared
    /\ IdleContrib

\* the answers of step 3: fetchWithRetry(.../event/${gw}/picks/) for every
\* gameweek up to the current one
FetchedPicks(up) ==
    [gw \in 1..CurrentGW(up.events) |-> fetchWithRetry(PicksAttempts(up, gw))]

\* the answers of step 4: fetchWithRetry(.../event/${gw}/live/) for every
\* gameweek up to the current one
FetchedLive(up) ==
    [gw \in 1..CurrentGW(up.events) |-> fetchWithRetry(LiveAttempts(up, gw))]

\* a fetch of step 3 or step 4 threw
FetchThrew(up) ==
    \/ \E gw \in DOMAIN FetchedPicks(up) : FetchedPicks(up)[gw] = Thrown
    \/ \E gw \in DOMAIN FetchedLive(up) : FetchedLive(up)[gw] = Thrown

\* if (!leagueId || !managerId) return res.status(400)
WhatIfBadRequest ==
    /\ pc = "request"
    /\ ~upstream.query.leagueId \/ ~upstream.query.managerId
    /\ response' = [status |-> 400]
    /\ pc' = "responded"
    /\ UNCHANGED <<upstream, picksMap, gwPlayerData, allFreezeGWs, fi, locals, branches>>
    /\ UNCHANGED resolverVars
    /\ UNCHANGED sharedVars
    /\ UNCHANGED contribVars

\* Steps 1 to 6: current gameweek, transfer history, picks and live data of
\* every gameweek, freeze points.
WhatIfFetch ==
    /\ pc = "request"
    /\ upstream.query.leagueId /\ upstream.query.managerId
    /\ ~FetchThrew(upstream)
    /\ LET currentGW == CurrentGW(upstream.events)
           data == [gw \in 1..currentGW |-> FetchedPicks(upstream)[gw].body]
           map == [gw \in 1..currentGW |->
                      IF HasPicks(data[gw]) THEN data[gw] ELSE Null]
       IN  /\ picksMap' = map
           /\ gwPlayerData' = [gw \in 1..currentGW |->
                                  FetchedLive(upstream)[gw].body.elements]
           /\ allFreezeGWs' = AllFreezeGWs(TransferGWs(upstream.transfers),
                                           FreeHitGWs(map, currentGW))
    /\ fi' = 1
    /\ pc' = "branches"
    /\ UNCHANGED <<upstream, locals, branches, response>>
    /\ UNCHANGED resolverVars
    /\ UNCHANGED sharedVars
    /\ UNCHANGED contribVars

\* A fetch of step 3 or step 4 threw: the handler's catch block answers 500.
WhatIfCatch ==
    /\ pc = "request"
    /\ upstream.query.leagueId /\ upstream.query.managerId
    /\ FetchThrew(upstream)
    /\ response' = [status |-> 500]
    /\ pc' = "responded"
    /\ UNCHANGED <<upstream, picksMap, gwPlayerData, allFreezeGWs, fi, locals, branches>>
    /\ UNCHANGED resolverVars
    /\ UNCHANGED sharedVars
    /\ UNCHANGED contribVars

\* What an iteration of the branch loop leaves in picksMap: frozenPicks is
\* the array stored in picksMap[freezeGW], it is read by the construction of
\* normalizedPicks and handed to simulateAutoSubs for the freeze gameweek.
PicksMapAfter(map, iteration) ==
    IF iteration.skipped THEN map
    ELSE [map EXCEPT ![iteration.freezeGW].picks =
                         PicksAfterResolve(PicksAfterNormalize(@))]

\* Step 7: one iteration of "for (const freezeGW of allFreezeGWs)".
WhatIfBranch ==
    /\ pc = "branches"
    /\ fi <= Len(allFreezeGWs)
    /\ locals' = BranchIteration(allFreezeGWs[fi], picksMap, gwPlayerData,
                                 CurrentGW(upstream.events))
    /\ branches' = AfterIteration(branches, locals')
    /\ picksMap' = PicksMapAfter(picksMap, locals')
    /\ fi' = fi + 1
    /\ UNCHANGED <<pc, upstream, gwPlayerData, allFreezeGWs, response>>
    /\ UNCHANGED resolverVars
    /\ UNCHANGED sharedVars
    /\ UNCHANGED contribVars

\* Step 5 (the actual totals) and res.status(200).json(...)
WhatIfRespond ==
    /\ pc = "branches"
    /\ fi > Len(allFreezeGWs)
    /\ response' = [status |-> 200,
                    currentGW |-> CurrentGW(upstream.events),
                    actual |-> [gw \in 1..CurrentGW(upstream.events) |->
                                   [gw |-> gw,
                                    points |-> IF HasHistory(picksMap, gw)
                                               THEN picksMap[gw].entry_history.total_points
                                               ELSE Null]],
                    branches |-> branches]
    /\ pc' = "responded"
    /\ UNCHANGED <<upstream, picksMap, gwPlayerData, allFreezeGWs, fi, locals, branches>>
    /\ UNCHANGED resolverVars
    /\ UNCHANGED sharedVars
    /\ UNCHANGED contribVars

NextWhatIf ==
    \/ WhatIfBadRequest
    \/ WhatIfFetch
    \/ WhatIfCatch
    \/ WhatIfBranch
    \/ WhatIfRespond

SpecWhatIf == InitWhatIf /\ [][NextWhatIf]_vars

(***************************************************************************)
(* Specification of the freeze-point computation alone (steps 2 and 6):    *)
(* the transfer history is any sequence of transfer records, in any order  *)
(* and with repeated gameweeks, and the free-hit gameweeks are any set of  *)
(* gameweeks up to the current one.                                        *)
(***************************************************************************)
InitFreeze ==
    /\ pc = "f_input"
    /\ \E q \in SeqsUpTo(1..(MaxGW + 1), MaxRecords), fh \in SUBSET (1..MaxGW) :
          upstream = [transfers |-> [i \in DOMAIN q |-> [event |-> q[i]]],
                      freeHitGWs |-> fh]
    /\ picksMap = <<>>
    /\ gwPlayerData = <<>>
    /\ allFreezeGWs = <<>>
    /\ fi = 0
    /\ locals = NoLocals
    /\ branches = <<>>
    /\ response = NoResponse
    /\ IdleResolver
    /\ IdleShared
    /\ IdleContrib

FreezePoints ==
    /\ pc = "f_input"
    /\ allFreezeGWs' = AllFreezeGWs(TransferGWs(upstream.transfers),
                                    upstream.freeHitGWs)
    /\ pc' = "f_done"
    /\ UNCHANGED <<upstream, picksMap, gwPlayerData, fi, locals, branches, response>>
    /\ UNCHANGED resolverVars
    /\ UNCHANGED sharedVars
    /\ UNCHANGED contribVars

NextFreeze == FreezePoints

SpecFreeze == InitFreeze /\ [][NextFreeze]_vars

(***************************************************************************)
(* The player-contributions handler (get-player-contributions), for the    *)
(* picks of one manager of the league: playerTotals is keyed by manager    *)
(* and the iterations of different managers share only gwPlayerData, which *)
(* the loop does not write.                                                *)
(***************************************************************************)
\* picks.map(p => ({ element: p.element, multiplier: p.multiplier }))
AllPicksEntries(ps) ==
    [i \in DOMAIN ps |-> [element |-> ps[i].element, multiplier |-> ps[i].multiplier]]

\* mutant: the chip is not looked at, the resolver always runs
EffectivePicks_AlwaysResolve(picksData, gwData) ==
    simulateAutoSubs(picksData.picks, gwData)

\* if (activeChip === 'bboost') effectivePicks = picks.map(...)
\* else effectivePicks = simulateAutoSubs(picks, gwData)
EffectivePicks(picksData, gwData) ==
    IF picksData.active_chip = "bboost"
    THEN AllPicksEntries(picksData.picks)
    ELSE simulateAutoSubs(picksData.picks, gwData)

\* totals[pick.element] = (totals[pick.element] || 0) + contributed
AddTo(totals, element, contributed) ==
    [e \in DOMAIN totals \cup {element} |->
        IF e = element
        THEN (IF e \in DOMAIN totals THEN totals[e] ELSE 0) + contributed
        ELSE totals[e]]

\* const contributed = rawPoints * pick.multiplier
Contributed(pick, gwData) == RawPoints(gwData, pick.element) * pick.multiplier

\* mutant: only a contribution of exactly zero is skipped
Skipped_OnlyZero(pick, contributed) == pick.multiplier = 0 \/ contributed = 0

\* if (pick.multiplier === 0) continue; ... if (contributed <= 0) continue;
Skipped(pick, contributed) == pick.multiplier = 0 \/ contributed <= 0

\* for (const pick of effectivePicks) { if (pick.multiplier === 0) continue; ...
\*   if (contributed <= 0) continue; totals[pick.element] = ... }
RECURSIVE AddContributions(_, _, _)
AddContributions(totals, eff, gwData) ==
    IF eff = <<>> THEN totals
    ELSE LET pick == Head(eff)
             contributed == Contributed(pick, gwData)
         IN  IF Skipped(pick, contributed)
             THEN AddContributions(totals, Tail(eff), gwData)
             ELSE AddContributions(AddTo(totals, pick.element, contributed),
                                   Tail(eff), gwData)

\* .sort((a, b) => b.points - a.points): stable, descending by points
RECURSIVE InsertByPointsDesc(_, _)
InsertByPointsDesc(sorted, x) ==
    IF sorted = <<>> THEN <<x>>
    ELSE IF x.points > Head(sorted).points THEN <<x>> \o sorted
    ELSE <<Head(sorted)>> \o InsertByPointsDesc(Tail(sorted), x)

RECURSIVE SortByPointsDesc(_)
SortByPointsDesc(xs) ==
    IF xs = <<>> THEN <<>>
    ELSE InsertByPointsDesc(SortByPointsDesc(SubSeq(xs, 1, Len(xs) - 1)), xs[Len(xs)])

\* Object.entries(totals): integer keys come in ascending order
RECURSIVE Entries(_)
Entries(totals) ==
    IF DOMAIN totals = {} THEN <<>>
    ELSE LET e == Min(DOMAIN totals)
         IN  <<[id |-> e, points |-> totals[e]]>>
             \o Entries([x \in DOMAIN totals \ {e} |-> totals[x]])

\* Object.entries(totals).map(...).filter(p => p.points > 0).sort(...)
PlayersOf(totals) ==
    SortByPointsDesc(SelectSeq(Entries(totals), LAMBDA q : q.points > 0))

\* what one finished gameweek can look like upstream for the manager: the
\* picks answer (a chip, "nopicks" for a body without picks, "404" for a
\* manager without entry that gameweek) and the kind of the live table
ContribScenarios ==
    {<<"none", 1>>, <<"none", 2>>, <<"3xc", 3>>, <<"bboost", 2>>,
     <<"bboost", 3>>, <<"nopicks", 1>>, <<"404", 2>>, <<"wildcard", 1>>}

ContribChips == {sc[1] : sc \in ContribScenarios} \ {"404"}
ContribTables == {sc[2] : sc \in ContribScenarios}
ContribPicksAnswers ==
    [gw \in 1..MaxGW |-> [chip \in ContribChips |-> UpstreamPicks(gw, chip)]]
ContribLiveAnswers ==
    [gw \in 1..MaxGW |-> [kind \in ContribTables |-> LiveTable(kind, gw)]]

InitContrib ==
    /\ pc = "c_request"
    /\ \E n \in 1..MaxGW :
          \E sc \in [1..n -> ContribScenarios] :
              upstream = [finishedGWs |-> [i \in 1..n |-> i],
                          picks |-> [gw \in 1..n |->
                                        IF sc[gw][1] = "404" THEN Null
                                        ELSE ContribPicksAnswers[gw][sc[gw][1]]],
                          live |-> [gw \in 1..n |-> ContribLiveAnswers[gw][sc[gw][2]]]]
    /\ gwPlayerData = <<>>
    /\ response = NoResponse
    /\ IdleContrib
    /\ IdleResolver
    /\ IdleShared
    /\ picksMap = <<>>
    /\ allFreezeGWs = <<>>
    /\ fi = 0
    /\ locals = NoLocals
    /\ branches = <<>>

\* Steps 1 to 3: finished gameweeks, live data, the manager's picks
\* (fetchPicksSafe answers null for a 404).
ContribFetch ==
    /\ pc = "c_request"
    /\ gwPlayerData' = [gw \in Range(upstream.finishedGWs) |-> upstream.live[gw]]
    /\ managerPicks' = [gw \in Range(upstream.finishedGWs) |-> upstream.picks[gw]]
    /\ playerTotals' = <<>>
    /\ gwi' = 1
    /\ pc' = "c_compute"
    /\ UNCHANGED <<upstream, response, effectivePicks>>
    /\ UNCHANGED <<picksMap, allFreezeGWs, fi, locals, branches>>
    /\ UNCHANGED resolverVars
    /\ UNCHANGED sharedVars

\* Step 4: one iteration of "for (const gw of finishedGWs)".
ContribGW ==
    /\ pc = "c_compute"
    /\ gwi <= Len(upstream.finishedGWs)
    /\ LET gw == upstream.finishedGWs[gwi]
           picksData == managerPicks[gw]
           gwData == gwPlayerData[gw]
       IN  IF picksData = Null \/ ~HasPicks(picksData)
           THEN UNCHANGED <<effectivePicks, playerTotals>>
           ELSE /\ effectivePicks' = EffectivePicks(picksData, gwData)
                /\ playerTotals' = AddContributions(playerTotals, effectivePicks', gwData)
    /\ gwi' = gwi + 1
    /\ UNCHANGED <<pc, upstream, gwPlayerData, managerPicks, response>>
    /\ UNCHANGED <<picksMap, allFreezeGWs, fi, locals, branches>>
    /\ UNCHANGED resolverVars
    /\ UNCHANGED sharedVars

\* Step 5: res.status(200).json({ managers: managersResponse })
ContribRespond ==
    /\ pc = "c_compute"
    /\ gwi > Len(upstream.finishedGWs)
    /\ response' = [status |-> 200, players |-> PlayersOf(playerTotals)]
    /\ pc' = "c_responded"
    /\ UNCHANGED <<upstream, gwPlayerData>>
    /\ UNCHANGED contribVars
    /\ UNCHANGED <<picksMap, allFreezeGWs, fi, locals, branches>>
    /\ UNCHANGED resolverVars
    /\ UNCHANGED sharedVars

NextContrib == ContribFetch \/ ContribGW \/ ContribRespond

SpecContrib == InitContrib /\ [][NextContrib]_vars

(***************************************************************************)
(* The shared utilities of api/_lib/fpl.js: fetchWithRetry and             *)
(* fetchPicksSafe.  A call is a record [attempt, fetches, waits, result]:  *)
(* the loop counter, the number of fetches made, the sleeps taken in       *)
(* milliseconds and the value returned (Pending while the loop runs).      *)
(***************************************************************************)
\* fetchWithRetry(url, retries = 4, baseDelay = 2000); fetchPicksSafe has
\* the same two numbers as local constants
SharedRetries == 4
BaseDelay == 2000

\* fetch(url) rejected: no response at all
NetworkError == [neterr |-> TRUE]
\* the call has not returned yet
Pending == [pending |-> TRUE]

StartCall == [attempt |-> 1, fetches |-> 0, waits |-> <<>>, result |-> Pending]

\* the three retrying functions: the one of the what-if handler
\* (part_001), and fetchWithRetry and fetchPicksSafe of api/_lib/fpl.js
FetchFns == {"whatIf.fetchWithRetry", "fetchWithRetry", "fetchPicksSafe"}

\* fetchWithRetry(url, retries = 3, delay = 1000) in the what-if handler
Delay == 1000
RetriesOf(fn) == IF fn = "whatIf.fetchWithRetry" THEN Retries ELSE SharedRetries
DelayOf(fn) == IF fn = "whatIf.fetchWithRetry" THEN Delay ELSE BaseDelay

\* mutant: the wait does not grow with the attempt
WaitOf_Constant(fn, baseDelay, attempt) == baseDelay

\* const wait = baseDelay * attempt; the what-if handler's function sleeps
\* delay ms whatever the attempt
WaitOf(fn, baseDelay, attempt) ==
    IF fn = "whatIf.fetchWithRetry" THEN baseDelay ELSE baseDelay * attempt

\* mutant: fetchPicksSafe treats a 404 like any other non-ok status
AttemptOutcome_404Retried(fn, answer, attempt, retries) ==
    IF answer = NetworkError
    THEN (IF attempt < retries THEN "sleep" ELSE "throw")
    ELSE IF ResponseOk(answer) THEN "return"
    ELSE IF attempt < retries THEN "sleep"
    ELSE "next"

\* What one pass of the loop body does with the answer of fetch:
\*   "return"  if (response.ok) return response
\*   "null"    fetchPicksSafe: if (response.status === 404) return null
\*   "sleep"   if (attempt < retries) await sleep(wait), in the try block as
\*             well as in the catch block
\*   "throw"   catch block of the last attempt: throw error
\*   "next"    a non-ok response at the last attempt: nothing is done
AttemptOutcome(fn, answer, attempt, retries) ==
    IF answer = NetworkError
    THEN (IF attempt < retries THEN "sleep" ELSE "throw")
    ELSE IF ResponseOk(answer) THEN "return"
    ELSE IF fn = "fetchPicksSafe" /\ answer.status = 404 THEN "null"
    ELSE IF attempt < retries THEN "sleep"
    ELSE "next"

\* one pass of "for (let attempt = 1; attempt <= retries; attempt++)"
AttemptStep(fn, answer, cl, retries, baseDelay) ==
    LET outcome == AttemptOutcome(fn, answer, cl.attempt, retries)
    IN  [attempt |-> IF outcome \in {"sleep", "next"} THEN cl.attempt + 1
                     ELSE cl.attempt,
         fetches |-> cl.fetches + 1,
         waits |-> IF outcome = "sleep"
                   THEN Append(cl.waits, WaitOf(fn, baseDelay, cl.attempt))
                   ELSE cl.waits,
         result |-> CASE outcome = "return" -> answer
                      [] outcome = "null" -> Null
                      [] outcome = "throw" -> Thrown
                      [] OTHER -> Pending]

\* mutant: whatever the function, null is returned after the loop
AfterLoop_AlwaysNull(fn) == Null

\* the statement after the loop: fetchWithRetry throws, fetchPicksSafe
\* returns null
AfterLoop(fn) == IF fn = "fetchPicksSafe" THEN Null ELSE Thrown

\* the whole call, answers[a] being what fetch gives at attempt a
RECURSIVE RunCall(_, _, _, _, _)
RunCall(fn, answers, cl, retries, baseDelay) ==
    IF cl.result # Pending THEN cl
    ELSE IF cl.attempt > retries THEN [cl EXCEPT !.result = AfterLoop(fn)]
    ELSE RunCall(fn, answers,
                 AttemptStep(fn, answers[cl.attempt], cl, retries, baseDelay),
                 retries, baseDelay)

sharedFetchWithRetry(answers) ==
    RunCall("fetchWithRetry", answers, StartCall, SharedRetries, BaseDelay).result

fetchPicksSafe(answers) ==
    RunCall("fetchPicksSafe", answers, StartCall, SharedRetries, BaseDelay).result

(***************************************************************************)
(* Specification of one call of a retrying function, a pass of the loop    *)
(* at a time.  upstream holds the function called and what fetch gives at  *)
(* each attempt.                                                           *)
(***************************************************************************)
\* what fetch can give at one attempt
AttemptAnswers ==
    {[status |-> 200, body |-> "data"],
     [status |-> 404, body |-> [detail |-> "Not found."]],
     [status |-> 503, body |-> Null],
     NetworkError}

InitFetch ==
    /\ pc = "fetching"
    /\ \E fn \in FetchFns :
          \E answers \in [1..RetriesOf(fn) -> AttemptAnswers] :
              upstream = [fn |-> fn, answers |-> answers]
    /\ call = StartCall
    /\ gwPlayerData = <<>>
    /\ response = NoResponse
    /\ IdleContrib
    /\ IdleResolver
    /\ IdleSeason
    /\ IdleBatch
    /\ picksMap = <<>>
    /\ allFreezeGWs = <<>>
    /\ fi = 0
    /\ locals = NoLocals
    /\ branches = <<>>

\* one pass of the loop: fetch, then return, sleep or throw
FetchAttempt ==
    /\ pc = "fetching"
    /\ call.attempt <= RetriesOf(upstream.fn)
    /\ call' = AttemptStep(upstream.fn, upstream.answers[call.attempt], call,
                           RetriesOf(upstream.fn), DelayOf(upstream.fn))
    /\ pc' = IF call'.result = Pending THEN "fetching" ELSE "returned"
    /\ UNCHANGED whatIfVars
    /\ UNCHANGED contribVars
    /\ UNCHANGED resolverVars
    /\ UNCHANGED seasonVars
    /\ UNCHANGED batchVars

\* the loop is over: the statement after it
FetchAfterLoop ==
    /\ pc = "fetching"
    /\ call.attempt > RetriesOf(upstream.fn)
    /\ call' = [call EXCEPT !.result = AfterLoop(upstream.fn)]
    /\ pc' = "returned"
    /\ UNCHANGED whatIfVars
    /\ UNCHANGED contribVars
    /\ UNCHANGED resolverVars
    /\ UNCHANGED seasonVars
    /\ UNCHANGED batchVars

NextFetch == FetchAttempt \/ FetchAfterLoop

SpecFetch == InitFetch /\ [][NextFetch]_vars

\* A pass of the loop ends: fetch settles (the platform bounds the time of a
\* request) and the timer of sleep fires.
FairSpecFetch == SpecFetch /\ WF_vars(NextFetch)

(***************************************************************************)
(* batchFetch(tasks, batchSize, delayMs) of api/_lib/fpl.js.  The tasks    *)
(* are numbered 1..n in the order of the tasks array; task t resolves with *)
(* the value t or rejects.  upstream holds n, batchSize and the tasks that *)
(* reject.  ti is the loop variable i, so the batch of an iteration is the *)
(* tasks ti+1 .. min(ti+batchSize, n).                                     *)
(***************************************************************************)
\* tasks.slice(i, i + batchSize)
BatchSlice(n, i, batchSize) ==
    [k \in 1..((IF i + batchSize < n THEN i + batchSize ELSE n) - i) |-> i + k]

\* the value task t resolves with
TaskValue(t) == t

\* mutant: the results of a batch are taken in the order the tasks settled
BatchResults_CompletionOrder(batch, settledTasks) ==
    LET inBatch(t) == t \in Range(batch)
    IN  [k \in 1..Len(SelectSeq(settledTasks, inBatch)) |->
            TaskValue(SelectSeq(settledTasks, inBatch)[k])]

\* await Promise.all(batch.map(fn => fn())): the values in the order of the
\* batch, whatever the order in which the tasks settled
BatchResults(batch, settledTasks) ==
    [k \in 1..Len(batch) |-> TaskValue(batch[k])]

InitBatch ==
    /\ pc = "b_loop"
    /\ \E n \in 0..MaxTasks, batchSize \in 1..MaxBatchSize :
          \E rejecting \in {S \in SUBSET (1..n) : Cardinality(S) <= 1} :
              upstream = [tasks |-> n, batchSize |-> batchSize,
                          rejecting |-> rejecting]
    /\ ti = 0
    /\ running = {}
    /\ settled = <<>>
    /\ results = <<>>
    /\ sleeps = 0
    /\ gwPlayerData = <<>>
    /\ response = NoResponse
    /\ IdleContrib
    /\ IdleResolver
    /\ IdleSeason
    /\ IdleFetch
    /\ picksMap = <<>>
    /\ allFreezeGWs = <<>>
    /\ fi = 0
    /\ locals = NoLocals
    /\ branches = <<>>

\* batchFetch writes none of the handlers' variables
BatchFrame ==
    /\ UNCHANGED whatIfVars
    /\ UNCHANGED contribVars
    /\ UNCHANGED resolverVars
    /\ UNCHANGED seasonVars
    /\ UNCHANGED fetchVars

\* i < tasks.length: batch.map(fn => fn()) starts every task of the batch
BatchStart ==
    /\ pc = "b_loop"
    /\ ti < upstream.tasks
    /\ running' = running \cup Range(BatchSlice(upstream.tasks, ti, upstream.batchSize))
    /\ pc' = "b_await"
    /\ UNCHANGED <<ti, settled, results, sleeps>>
    /\ BatchFrame

\* a task that is running settles: it resolves or rejects
TaskSettles ==
    /\ \E t \in running :
          /\ running' = running \ {t}
          /\ settled' = Append(settled, t)
    /\ UNCHANGED <<pc, ti, results, sleeps>>
    /\ BatchFrame

\* Promise.all resolves once every task of the batch has resolved:
\* results.push(...batchResults); if (i + batchSize < tasks.length) await
\* sleep(delayMs)
BatchResolved ==
    /\ pc = "b_await"
    /\ LET batch == BatchSlice(upstream.tasks, ti, upstream.batchSize)
       IN  /\ Range(batch) \subseteq Range(settled)
           /\ Range(batch) \cap upstream.rejecting = {}
           /\ results' = results \o BatchResults(batch, settled)
    /\ IF ti + upstream.batchSize < upstream.tasks
       THEN /\ sleeps' = sleeps + 1
            /\ pc' = "b_sleep"
            /\ ti' = ti
       ELSE /\ sleeps' = sleeps
            /\ pc' = "b_loop"
            /\ ti' = ti + upstream.batchSize
    /\ UNCHANGED <<running, settled>>
    /\ BatchFrame

\* Promise.all rejects as soon as a task of the batch has rejected: the
\* await throws and batchFetch with it; the tasks still running go on
BatchRejected ==
    /\ pc = "b_await"
    /\ Range(settled) \cap upstream.rejecting # {}
    /\ pc' = "b_thrown"
    /\ UNCHANGED <<ti, running, settled, results, sleeps>>
    /\ BatchFrame

\* the delay is over: i += batchSize
BatchWake ==
    /\ pc = "b_sleep"
    /\ ti' = ti + upstream.batchSize
    /\ pc' = "b_loop"
    /\ UNCHANGED <<running, settled, results, sleeps>>
    /\ BatchFrame

\* i >= tasks.length: return results
BatchReturn ==
    /\ pc = "b_loop"
    /\ ti >= upstream.tasks
    /\ pc' = "b_returned"
    /\ UNCHANGED <<ti, running, settled, results, sleeps>>
    /\ BatchFrame

NextBatch ==
    \/ BatchStart
    \/ TaskSettles
    \/ BatchResolved
    \/ BatchRejected
    \/ BatchWake
    \/ BatchReturn

SpecBatch == InitBatch /\ [][NextBatch]_vars

(***************************************************************************)
(* The season-data handler (get-season-data), for one manager of the       *)
(* league: the three totals are keyed by manager and the iterations of     *)
(* different managers share only gwPlayerData, which the loop does not     *)
(* write.                                                                  *)
(***************************************************************************)
\* the transfer cost the manager paid in a gameweek
TransferCost(gw) == 4 * (gw % 2)

\* The automatic_subs list of a picks record, by kind:
\*   "none"   the empty list
\*   "bench"  one substitution: the bench player of slot 13 for the captain
\*   "two"    two substitutions: the bench players of slots 14 and 15 for
\*            the captain and the starter of slot 5
AutomaticSubs(gw, kind) ==
    LET ps == MakePicks(SquadOfGW(gw), "plain")
        sub(inSlot, outSlot) ==
            [element_in |-> PickAt(ps, inSlot).element,
             element_out |-> PickAt(ps, outSlot).element,
             event |-> gw]
    IN  CASE kind = "bench" -> <<sub(13, CaptainSlot(SquadOfGW(gw)))>>
          [] kind = "two" -> <<sub(14, CaptainSlot(SquadOfGW(gw))), sub(15, 5)>>
          [] OTHER -> <<>>

\* The picks endpoint of a gameweek as the season-data handler reads it.
SeasonPicks(gw, chip, kind) ==
    IF chip = "nopicks" THEN [detail |-> "Not found."]
    ELSE [picks |-> MakePicks(SquadOfGW(gw), ProfileOfChip(chip)),
          active_chip |-> chip,
          automatic_subs |-> AutomaticSubs(gw, kind),
          entry_history |-> [total_points |-> ActualTotal(gw),
                             event_transfers_cost |-> TransferCost(gw)]]

\* What one gameweek can look like upstream: how the picks endpoint answers
\* (a chip, "nopicks" for a 200 body without picks, "404", "503" or
\* "neterr" when every attempt ends that way), the kind of the live table
\* (0: the live endpoint answers 500) and the kind of automatic_subs.
SeasonScenarios ==
    {<<"none", 1, "none">>, <<"none", 2, "bench">>, <<"none", 2, "two">>,
     <<"3xc", 3, "two">>, <<"bboost", 2, "none">>, <<"wildcard", 1, "bench">>,
     <<"nopicks", 1, "none">>, <<"404", 2, "none">>, <<"503", 1, "none">>,
     <<"neterr", 1, "none">>, <<"none", 0, "none">>}

SeasonFailures == {"nopicks", "404", "503", "neterr"}
\* each kind of failure is tried in at most one gameweek
SeasonFailuresOnce(sc) ==
    /\ \A chip \in SeasonFailures :
           Cardinality({gw \in DOMAIN sc : sc[gw][1] = chip}) <= 1
    /\ Cardinality({gw \in DOMAIN sc : sc[gw][2] = 0}) <= 1

SeasonBodyChips == {sc[1] : sc \in SeasonScenarios} \ {"404", "503", "neterr"}
SeasonSubsKinds == {sc[3] : sc \in SeasonScenarios}
SeasonPicksAnswers ==
    [gw \in 1..MaxGW |-> [chip \in SeasonBodyChips |->
        [kind \in SeasonSubsKinds |-> SeasonPicks(gw, chip, kind)]]]

\* what fetch gives for the picks of a gameweek, at every attempt alike
SeasonPicksAnswer(up, gw) ==
    LET chip == up.answers[gw][1]
    IN  CASE chip = "neterr" -> NetworkError
          [] chip = "404" -> [status |-> 404, body |-> [detail |-> "Not found."]]
          [] chip = "503" -> [status |-> 503, body |-> Null]
          [] OTHER -> [status |-> 200,
                       body |-> SeasonPicksAnswers[gw][chip][up.answers[gw][3]]]

\* what fetch gives for the live data of a gameweek, at every attempt alike
SeasonLiveAnswer(up, gw) ==
    IF up.answers[gw][2] = 0 THEN [status |-> 500, body |-> Null]
    ELSE [status |-> 200, body |-> [elements |-> ContribLiveAnswers[gw][up.answers[gw][2]]]]

\* How the league standings endpoint answers:
\*   "ok"        200 with the standings
\*   "detail"    200 with the body { detail: 'Not found.' }
\*   "notfound"  404 with the body { detail: 'Not found.' }
\*   "error"     500
StandingsKinds == {"ok", "detail", "notfound", "error"}
StandingsAnswer(up) ==
    CASE up.standings = "ok" -> [status |-> 200, body |-> [standings |-> "results"]]
      [] up.standings = "detail" -> [status |-> 200, body |-> [detail |-> "Not found."]]
      [] up.standings = "notfound" -> [status |-> 404, body |-> [detail |-> "Not found."]]
      [] OTHER -> [status |-> 500, body |-> Null]

EveryAttempt(answer) == [attempt \in 1..SharedRetries |-> answer]

\* bootstrapData.events.filter(e => e.finished).map(e => e.id)
FinishedGWs(events) ==
    LET ids == [i \in 1..Len(events) |-> events[i].id]
    IN  SelectSeq(ids, LAMBDA id : \E i \in 1..Len(events) :
                                      events[i].id = id /\ events[i].finished)

InitSeason ==
    /\ pc = "s_request"
    /\ \E cg \in 1..MaxGW, leagueId \in BOOLEAN, standings \in StandingsKinds,
          currentFinished \in BOOLEAN :
          \E sc \in {x \in [1..cg -> SeasonScenarios] : SeasonFailuresOnce(x)} :
              \* a request that is answered before any gameweek is read is
              \* tried with one upstream only
              /\ (~leagueId \/ standings # "ok") =>
                    (currentFinished /\ \A gw \in 1..cg : sc[gw] = <<"none", 1, "none">>)
              /\ upstream = [leagueId |-> leagueId,
                             standings |-> standings,
                             events |-> BootstrapEvents(cg, currentFinished),
                             answers |-> sc]
    /\ gwPlayerData = <<>>
    /\ response = NoResponse
    /\ IdleContrib
    /\ IdleResolver
    /\ IdleShared
    /\ picksMap = <<>>
    /\ allFreezeGWs = <<>>
    /\ fi = 0
    /\ locals = NoLocals
    /\ branches = <<>>

\* if (!leagueId) return res.status(400)
SeasonBadRequest ==
    /\ pc = "s_request"
    /\ ~upstream.leagueId
    /\ response' = [status |-> 400]
    /\ pc' = "s_responded"
    /\ UNCHANGED <<upstream, gwPlayerData>>
    /\ UNCHANGED contribVars
    /\ UNCHANGED <<picksMap, allFreezeGWs, fi, locals, branches>>
    /\ UNCHANGED resolverVars
    /\ UNCHANGED sharedVars

\* step 1: fetchWithRetry of the league standings
FetchedStandings(up) == sharedFetchWithRetry(EveryAttempt(StandingsAnswer(up)))

\* step 2: fetchWithRetry(.../event/${gw}/live/) for every finished gameweek
SeasonFetchedLive(up) ==
    [gw \in Range(FinishedGWs(up.events)) |->
        sharedFetchWithRetry(EveryAttempt(SeasonLiveAnswer(up, gw)))]

\* step 3: fetchPicksSafe(.../event/${gw}/picks/) for every finished gameweek
SeasonFetchedPicks(up) ==
    [gw \in Range(FinishedGWs(up.events)) |->
        fetchPicksSafe(EveryAttempt(SeasonPicksAnswer(up, gw)))]

\* leagueData.detail === 'Not found.'
LeagueNotFound(up) ==
    /\ FetchedStandings(up) # Thrown
    /\ "detail" \in DOMAIN FetchedStandings(up).body
    /\ FetchedStandings(up).body.detail = "Not found."

\* a fetch of steps 1 to 3 threw
SeasonFetchThrew(up) ==
    \/ FetchedStandings(up) = Thrown
    \/ /\ ~LeagueNotFound(up)
       /\ \/ \E gw \in DOMAIN SeasonFetchedLive(up) : SeasonFetchedLive(up)[gw] = Thrown
          \/ \E gw \in DOMAIN SeasonFetchedPicks(up) : SeasonFetchedPicks(up)[gw] = Thrown

\* if (leagueData.detail === 'Not found.') return res.status(404)
SeasonNotFound ==
    /\ pc = "s_request"
    /\ upstream.leagueId
    /\ LeagueNotFound(upstream)
    /\ response' = [status |-> 404]
    /\ pc' = "s_responded"
    /\ UNCHANGED <<upstream, gwPlayerData>>
    /\ UNCHANGED contribVars
    /\ UNCHANGED <<picksMap, allFreezeGWs, fi, locals, branches>>
    /\ UNCHANGED resolverVars
    /\ UNCHANGED sharedVars

\* A fetch threw: the handler's catch block answers 500.
SeasonCatch ==
    /\ pc = "s_request"
    /\ upstream.leagueId
    /\ SeasonFetchThrew(upstream)
    /\ response' = [status |-> 500]
    /\ pc' = "s_responded"
    /\ UNCHANGED <<upstream, gwPlayerData>>
    /\ UNCHANGED contribVars
    /\ UNCHANGED <<picksMap, allFreezeGWs, fi, locals, branches>>
    /\ UNCHANGED resolverVars
    /\ UNCHANGED sharedVars

\* Steps 1 to 3: finished gameweeks, live data, the manager's picks
\* (r ? r.json() : null).
SeasonFetch ==
    /\ pc = "s_request"
    /\ upstream.leagueId
    /\ ~LeagueNotFound(upstream)
    /\ ~SeasonFetchThrew(upstream)
    /\ gwPlayerData' = [gw \in Range(FinishedGWs(upstream.events)) |->
                           SeasonFetchedLive(upstream)[gw].body.elements]
    /\ managerPicks' = [gw \in Range(FinishedGWs(upstream.events)) |->
                           IF SeasonFetchedPicks(upstream)[gw] = Null THEN Null
                           ELSE SeasonFetchedPicks(upstream)[gw].body]
    /\ playerTotals' = <<>>
    /\ autoSubTotals' = 0
    /\ transferCostTotals' = 0
    /\ gwi' = 1
    /\ pc' = "s_compute"
    /\ UNCHANGED <<upstream, response, effectivePicks>>
    /\ UNCHANGED <<picksMap, allFreezeGWs, fi, locals, branches>>
    /\ UNCHANGED resolverVars
    /\ UNCHANGED fetchVars
    /\ UNCHANGED batchVars

\* mutant: the points of the player who was substituted out
SubPoints_PlayerOut(gwData, sub) ==
    IF sub.element_out \in DOMAIN gwData THEN gwData[sub.element_out].points ELSE 0

\* const playerIn = gwData[sub.element_in]; if (playerIn) ... += playerIn.points
SubPoints(gwData, sub) ==
    IF sub.element_in \in DOMAIN gwData THEN gwData[sub.element_in].points ELSE 0

\* if (picksData.automatic_subs && picksData.automatic_subs.length > 0)
\*   for (const sub of picksData.automatic_subs) ...
AutoSubPoints(picksData, gwData) ==
    IF "automatic_subs" \in DOMAIN picksData
    THEN SumSeq([i \in DOMAIN picksData.automatic_subs |->
                    SubPoints(gwData, picksData.automatic_subs[i])])
    ELSE 0

\* if (picksData.entry_history) ... += entry_history.event_transfers_cost
TransferCostOf(picksData) ==
    IF "entry_history" \in DOMAIN picksData
    THEN picksData.entry_history.event_transfers_cost
    ELSE 0

\* Step 4: one iteration of "for (const gw of finishedGWs)".
SeasonGW ==
    /\ pc = "s_compute"
    /\ gwi <= Len(FinishedGWs(upstream.events))
    /\ LET gw == FinishedGWs(upstream.events)[gwi]
           picksData == managerPicks[gw]
           gwData == gwPlayerData[gw]
       IN  IF picksData = Null
           THEN UNCHANGED <<effectivePicks, playerTotals, autoSubTotals,
                            transferCostTotals>>
           ELSE /\ autoSubTotals' = autoSubTotals + AutoSubPoints(picksData, gwData)
                /\ transferCostTotals' = transferCostTotals + TransferCostOf(picksData)
                /\ IF ~HasPicks(picksData)
                   THEN UNCHANGED <<effectivePicks, playerTotals>>
                   ELSE /\ effectivePicks' = EffectivePicks(picksData, gwData)
                        /\ playerTotals' =
                              AddContributions(playerTotals, effectivePicks', gwData)
    /\ gwi' = gwi + 1
    /\ UNCHANGED <<pc, upstream, gwPlayerData, managerPicks, response>>
    /\ UNCHANGED <<picksMap, allFreezeGWs, fi, locals, branches>>
    /\ UNCHANGED resolverVars
    /\ UNCHANGED fetchVars
    /\ UNCHANGED batchVars

\* Step 5: res.status(200).json({ gameweek, autoSubs, transferCosts,
\* playerContributions })
SeasonRespond ==
    /\ pc = "s_compute"
    /\ gwi > Len(FinishedGWs(upstream.events))
    /\ response' = [status |-> 200,
                    gameweek |-> CurrentGW(upstream.events),
                    totalAutoSubPoints |-> autoSubTotals,
                    totalTransferCost |-> transferCostTotals,
                    players |-> PlayersOf(playerTotals)]
    /\ pc' = "s_responded"
    /\ UNCHANGED <<upstream, gwPlayerData>>
    /\ UNCHANGED contribVars
    /\ UNCHANGED <<picksMap, allFreezeGWs, fi, locals, branches>>
    /\ UNCHANGED resolverVars
    /\ UNCHANGED sharedVars

NextSeason ==
    \/ SeasonBadRequest
    \/ SeasonNotFound
    \/ SeasonCatch
    \/ SeasonFetch
    \/ SeasonGW
    \/ SeasonRespond

SpecSeason == InitSeason /\ [][NextSeason]_vars

(***************************************************************************)
(* Vocabulary of the resolver claims, stated on the inputs directly.       *)
(***************************************************************************)
\* the player has a record with minutes > 0
Played(pd, e) == e \in DOMAIN pd /\ pd[e].minutes > 0

StarterPicks(ps) == {p \in Range(ps) : p.position \in StarterSlots}
BenchPicks(ps) == {p \in Range(ps) : p.position \in BenchSlots}
\* starters with minutes == 0 or no record
OutStarters(ps, pd) == {p \in StarterPicks(ps) : ~Played(pd, p.element)}
\* bench players with minutes > 0
PlayingBench(ps, pd) == {p \in BenchPicks(ps) : Played(pd, p.element)}
LowestSlot(S) == CHOOSE p \in S : \A q \in S : p.position <= q.position

Entry(e, m) == [element |-> e, multiplier |-> m]
Resolved == pc = "resolved"
NumStarters == Cardinality(StarterSlots)
\* the entries of the lineup filled by a bench player of the picks
SubbedIndices(ps, l) ==
    {i \in DOMAIN l : l[i].element \in {b.element : b \in BenchPicks(ps)}}
InLineup(l, e) == \E i \in DOMAIN l : l[i].element = e

\* C1: with exactly one starter without minutes and at least one bench
\* player with minutes, the lineup holds, in that starter's place, the
\* lowest-slot bench player with minutes, with the starter's multiplier; the
\* starter is not in the lineup and the other starters are unchanged.
C1_SingleSubstitution ==
    Resolved =>
        \A s \in OutStarters(picks, playerData) :
            (OutStarters(picks, playerData) = {s}
                /\ PlayingBench(picks, playerData) # {}) =>
            LET b == LowestSlot(PlayingBench(picks, playerData))
            IN  /\ Len(lineup) = NumStarters
                /\ lineup[s.position] = Entry(b.element, s.multiplier)
                /\ ~InLineup(lineup, s.element)
                /\ \A t \in StarterPicks(picks) \ {s} :
                       lineup[t.position] = Entry(t.element, t.multiplier)

\* C1 witness: the captain is the one starter out, the first bench player
\* did not play and a later one did.
C1_Witness ==
    /\ Resolved
    /\ \E s \in OutStarters(picks, playerData) :
          /\ OutStarters(picks, playerData) = {s}
          /\ s.multiplier >= 2
    /\ PlayingBench(picks, playerData) # {}
    /\ LowestSlot(PlayingBench(picks, playerData)).position > FirstBench
    /\ LowestSlot(PlayingBench(picks, playerData)).multiplier = 1

\* C2: when every starter has minutes > 0 the lineup is the starters in
\* ascending slot order with their own multipliers, whatever the bench did.
C2_AllStartersPlayed ==
    (Resolved /\ OutStarters(picks, playerData) = {}) =>
        /\ Len(lineup) = NumStarters
        /\ \A i \in DOMAIN lineup :
               \E p \in StarterPicks(picks) :
                   /\ p.position = FirstStarter + i - 1
                   /\ lineup[i] = Entry(p.element, p.multiplier)
        /\ SubbedIndices(picks, lineup) = {}

\* C2 witness: all starters played, bench players played too, and the
\* picks were not given in slot order.
C2_Witness ==
    /\ Resolved
    /\ OutStarters(picks, playerData) = {}
    /\ Cardinality(PlayingBench(picks, playerData)) >= 2
    /\ picks[1].position # FirstStarter

\* C3: two starters without minutes and exactly one bench player with
\* minutes: one substitution, for the starter in the lower slot; the other
\* starter stays with its own multiplier.
C3_TwoOutOneSub ==
    Resolved =>
        \A s1, s2 \in OutStarters(picks, playerData) :
            (/\ s1.position < s2.position
             /\ OutStarters(picks, playerData) = {s1, s2}
             /\ Cardinality(PlayingBench(picks, playerData)) = 1) =>
            LET b == LowestSlot(PlayingBench(picks, playerData))
            IN  /\ Cardinality(SubbedIndices(picks, lineup)) = 1
                /\ lineup[s1.position] = Entry(b.element, s1.multiplier)
                /\ lineup[s2.position] = Entry(s2.element, s2.multiplier)

\* C3 witness: two starters out, the second one the captain, one bench
\* player with minutes.
C3_Witness ==
    /\ Resolved
    /\ Cardinality(OutStarters(picks, playerData)) = 2
    /\ Cardinality(PlayingBench(picks, playerData)) = 1
    /\ \E s1, s2 \in OutStarters(picks, playerData) :
          s1.position < s2.position /\ s2.multiplier >= 2

\* C4: no player appears twice in the lineup.
C4_NoPlayerTwice ==
    Resolved =>
        \A i, j \in DOMAIN lineup :
            i # j => lineup[i].element # lineup[j].element

\* C4 witness: several starters out and several bench players with
\* minutes, so that more than one substitution was made.
C4_Witness ==
    /\ Resolved
    /\ Cardinality(OutStarters(picks, playerData)) >= 2
    /\ Cardinality(PlayingBench(picks, playerData)) >= 2
    /\ Cardinality(SubbedIndices(picks, lineup)) >= 2

\* C5: a starter without minutes is in the lineup exactly when every bench
\* player with minutes is already taken by a starter out in a lower slot, and
\* then it has its own slot and multiplier; the call returns a full lineup.
C5_NoSubstituteKeepsStarter ==
    Resolved =>
        /\ Len(lineup) = NumStarters
        /\ \A s \in OutStarters(picks, playerData) :
              LET earlier == {t \in OutStarters(picks, playerData) :
                                 t.position < s.position}
                  noneLeft == Cardinality(earlier)
                                 >= Cardinality(PlayingBench(picks, playerData))
              IN  /\ InLineup(lineup, s.element) <=> noneLeft
                  /\ noneLeft => lineup[s.position] = Entry(s.element, s.multiplier)

\* C5 witness: a captain without minutes is kept although a bench player
\* played, because an earlier starter took that bench player.
C5_Witness ==
    /\ Resolved
    /\ Cardinality(PlayingBench(picks, playerData)) = 1
    /\ \E s \in OutStarters(picks, playerData) :
          /\ s.multiplier >= 2
          /\ InLineup(lineup, s.element)
          /\ \E t \in OutStarters(picks, playerData) : t.position < s.position

(***************************************************************************)
(* Vocabulary of the what-if claims.                                       *)
(***************************************************************************)
\* the last iteration of the branch loop produced a branch
HaveBranch == pc \in {"branches", "responded"} /\ ~locals.skipped
\* the picks a replay entry was resolved from
ReplayPicks(k) == IF k = 1 THEN locals.frozenPicks ELSE locals.normalizedPicks
\* the live table of a replay entry
ReplayTable(k) == gwPlayerData[locals.replay[k].gw]
\* the points a replay entry adds to the branch, read from the emitted data
EmittedDelta(k) ==
    LET data == branches[Len(branches)].data
    IN  data[k].points - (IF k = 1 THEN locals.basePoints ELSE data[k - 1].points)
\* the points of a player's record; a player without a record has none
RecordPoints(table, e) == IF e \in DOMAIN table THEN table[e].points ELSE 0

\* C6: a player without a record is a substitution trigger as a starter,
\* is never substituted in from the bench, and adds nothing to the score of
\* the gameweek: the score is the sum over the lineup entries that have a
\* record.
C6_AbsentRecordIsZero ==
    HaveBranch =>
        \A k \in DOMAIN locals.replay :
            LET l == locals.replay[k].lineup
                t == ReplayTable(k)
                ps == ReplayPicks(k)
                out == OutStarters(ps, t)
            IN  /\ Len(l) = NumStarters
                /\ \A b \in BenchPicks(ps) :
                       b.element \notin DOMAIN t => ~InLineup(l, b.element)
                /\ \A s \in StarterPicks(ps) :
                       (/\ s.element \notin DOMAIN t
                        /\ s = LowestSlot(out)
                        /\ PlayingBench(ps, t) # {}) =>
                       /\ ~InLineup(l, s.element)
                       /\ l[s.position].element = LowestSlot(PlayingBench(ps, t)).element
                /\ EmittedDelta(k) =
                       SumSeq([i \in DOMAIN l |->
                                  IF l[i].element \in DOMAIN t
                                  THEN t[l[i].element].points * l[i].multiplier
                                  ELSE 0])

\* C6 witness: in one gameweek of a branch a starter without a record was
\* replaced, another one stayed in the lineup with a positive multiplier, and
\* a bench player without a record was passed over.
C6_Witness ==
    /\ HaveBranch
    /\ \E k \in DOMAIN locals.replay :
          LET l == locals.replay[k].lineup
              t == ReplayTable(k)
              ps == ReplayPicks(k)
          IN  /\ \E i \in DOMAIN l :
                    l[i].element \notin DOMAIN t /\ l[i].multiplier > 0
              /\ \E s \in StarterPicks(ps) :
                    s.element \notin DOMAIN t /\ ~InLineup(l, s.element)
              /\ \E b \in BenchPicks(ps) :
                    /\ b.element \notin DOMAIN t
                    /\ b.position < LowestSlot(PlayingBench(ps, t)).position

\* C8 (as claimed): when the freeze gameweek had the bench-boost chip
\* active, the freeze gameweek's entry adds the points of all 15 frozen picks
\* at their stored multipliers.
C8_BenchBoostFreezeCountsAll15 ==
    (HaveBranch /\ picksMap[locals.freezeGW].active_chip = "bboost") =>
        EmittedDelta(1) =
            SumSeq([i \in DOMAIN locals.frozenPicks |->
                       RecordPoints(ReplayTable(1), locals.frozenPicks[i].element)
                          * locals.frozenPicks[i].multiplier])

\* C9: a starter with multiplier 3 in the frozen picks has its lineup entry
\* (its own or its substitute's) at multiplier 3 in the freeze gameweek and at
\* 2 in every later gameweek of the branch, and the emitted points are scored
\* with these multipliers.
C9_TripleCaptainOnlyAtFreeze ==
    HaveBranch =>
        \A p \in StarterPicks(locals.frozenPicks) :
            p.multiplier = 3 =>
                \A k \in DOMAIN locals.replay :
                    LET l == locals.replay[k].lineup
                        expected(i) ==
                            IF i = p.position THEN (IF k = 1 THEN 3 ELSE 2)
                            ELSE PickAt(locals.frozenPicks, i).multiplier
                    IN  /\ l[p.position].multiplier = (IF k = 1 THEN 3 ELSE 2)
                        /\ EmittedDelta(k) =
                               SumSeq([i \in DOMAIN l |->
                                          RecordPoints(ReplayTable(k), l[i].element)
                                             * expected(i)])

\* C9 witness: a branch of at least two gameweeks frozen on a triple
\* captain; in the freeze gameweek the captain's slot scored points, and in
\* a later gameweek the captain's multiplier passed to a substitute.
C9_Witness ==
    /\ HaveBranch
    /\ Len(locals.replay) >= 2
    /\ \E p \in StarterPicks(locals.frozenPicks) :
          /\ p.multiplier = 3
          /\ RecordPoints(ReplayTable(1), locals.replay[1].lineup[p.position].element) > 0
          /\ \E k \in 2..Len(locals.replay) :
                /\ locals.replay[k].lineup[p.position].element # p.element
                /\ RecordPoints(ReplayTable(k),
                                locals.replay[k].lineup[p.position].element) > 0

\* C10: the normalized picks differ from the frozen picks in multiplier
\* only: bench slots get 0, a starter's 3 becomes 2, any other starter
\* multiplier stays; normalizing again changes nothing; every gameweek after
\* the freeze gameweek is resolved with the normalized multipliers.
C10_NormalizedPicks ==
    HaveBranch =>
        LET f == locals.frozenPicks
            n == locals.normalizedPicks
        IN  /\ DOMAIN n = DOMAIN f
            /\ \A i \in DOMAIN f :
                  /\ n[i].element = f[i].element
                  /\ n[i].position = f[i].position
                  /\ f[i].position \in BenchSlots => n[i].multiplier = 0
                  /\ (f[i].position \in StarterSlots /\ f[i].multiplier = 3)
                        => n[i].multiplier = 2
                  /\ (f[i].position \in StarterSlots /\ f[i].multiplier # 3)
                        => n[i].multiplier = f[i].multiplier
            /\ NormalizePicks(n) = n
            /\ \A k \in 2..Len(locals.replay) :
                  \A p \in StarterPicks(n) :
                      locals.replay[k].lineup[p.position].multiplier = p.multiplier

\* C10 witness: a branch of at least two gameweeks whose frozen picks hold
\* a triple captain.
C10_Witness ==
    /\ HaveBranch
    /\ Len(locals.replay) >= 2
    /\ \E p \in StarterPicks(locals.frozenPicks) : p.multiplier = 3
    /\ locals.frozenPicks[1].position = FirstStarter

\* the score of a lineup against a live table: points times multiplier,
\* summed over the lineup entries
Score(l, table) ==
    SumSeq([i \in DOMAIN l |-> RecordPoints(table, l[i].element) * l[i].multiplier])
\* the branch emitted by the last iteration of the branch loop
LastBranch == branches[Len(branches)]

\* C11 (as claimed): the first entry of a branch frozen at f is the score of
\* the resolved freeze-gameweek lineup plus 0 when f = 1, plus the total
\* recorded for gameweek f-1 when f > 1.
C11_BaseIsPreviousTotal ==
    HaveBranch =>
        LET f == locals.freezeGW
            score == Score(simulateAutoSubs(picksMap[f].picks, gwPlayerData[f]),
                           gwPlayerData[f])
        IN  /\ f = 1 => LastBranch.data[1].points = score
            /\ f > 1 =>
                  /\ HasHistory(picksMap, f - 1)
                  /\ LastBranch.data[1].points =
                        picksMap[f - 1].entry_history.total_points + score

\* C11 (amended): the first entry of a branch frozen at f is the score of
\* the resolved freeze-gameweek lineup plus the base points; the base points
\* are the total recorded for gameweek f-1 when f > 1 and gameweek f-1 has a
\* picks record with an entry history, and 0 otherwise.
C11_BaseIsPreviousTotalIfRecorded ==
    HaveBranch =>
        LET f == locals.freezeGW
            score == Score(simulateAutoSubs(picksMap[f].picks, gwPlayerData[f]),
                           gwPlayerData[f])
            base == IF f > 1 /\ HasHistory(picksMap, f - 1)
                    THEN picksMap[f - 1].entry_history.total_points
                    ELSE 0
        IN  /\ LastBranch.freezeGW = f
            /\ LastBranch.data[1].gw = f
            /\ LastBranch.data[1].points = base + score

\* C11 witness: a branch frozen after gameweek 1 whose previous gameweek has
\* no picks record, with a freeze gameweek that scored points.
C11_Witness ==
    /\ HaveBranch
    /\ locals.freezeGW > 1
    /\ picksMap[locals.freezeGW - 1] = Null
    /\ LastBranch.data[1].points > 0

\* C12: a branch frozen at f has one entry per gameweek from f to the
\* current gameweek, in order and without gaps, and each entry after the first
\* adds to the previous one the score of the lineup resolved from the
\* normalized picks against that gameweek's table.
C12_OneEntryPerGameweek ==
    HaveBranch =>
        LET f == locals.freezeGW
            data == LastBranch.data
        IN  /\ Len(data) = CurrentGW(upstream.events) - f + 1
            /\ \A i \in DOMAIN data : data[i].gw = f + i - 1
            /\ \A i \in 2..Len(data) :
                  LET gw == f + i - 1
                  IN  gw \in DOMAIN gwPlayerData =>
                          data[i].points - data[i - 1].points =
                              Score(simulateAutoSubs(locals.normalizedPicks,
                                                     gwPlayerData[gw]),
                                    gwPlayerData[gw])

\* C12 witness: a branch of three gameweeks frozen on a chip gameweek, so
\* that the normalized picks differ from the frozen ones, and whose later
\* gameweeks both scored points.
C12_Witness ==
    /\ HaveBranch
    /\ Len(LastBranch.data) >= 3
    /\ locals.normalizedPicks # locals.frozenPicks
    /\ \A i \in 2..Len(LastBranch.data) :
          LastBranch.data[i].points > LastBranch.data[i - 1].points

\* C13 (as claimed): every entry of an emitted branch is for a gameweek
\* that upstream has marked finished, and the last entry is for the last
\* finished gameweek.
C13_EndsAtLastFinished ==
    HaveBranch =>
        LET data == LastBranch.data
            finishedGWs == {e.id : e \in {x \in Range(upstream.events) : x.finished}}
        IN  /\ \A i \in DOMAIN data : data[i].gw \in finishedGWs
            /\ \A gw \in finishedGWs : gw <= data[Len(data)].gw

\* the request was answered
Responded == pc = "responded" /\ response # NoResponse
\* the gameweeks up to the current one for which upstream has no stat table
NoTableGWs ==
    {gw \in 1..CurrentGW(upstream.events) : upstream.answers[gw] = NoLiveData}
\* the entry of a branch for a gameweek
EntryOf(branch, gw) == branch.data[gw - branch.freezeGW + 1]

\* C14 (as claimed): when no stat table exists for a gameweek, the request
\* is still answered with branches; every branch that covers the gameweek has
\* an entry for it whose points are those of the previous entry (the base
\* points at the freeze gameweek).
C14_MissingTableKeepsTotal ==
    (Responded /\ NoTableGWs # {}) =>
        /\ response.status = 200
        /\ \A b \in Range(response.branches) :
              \A gw \in NoTableGWs :
                  gw >= b.freezeGW =>
                      EntryOf(b, gw).points =
                          IF gw = b.freezeGW THEN BasePoints(picksMap, gw)
                          ELSE EntryOf(b, gw - 1).points

\* the gameweeks with a recorded transfer
EventsOf(transfersData) == {transfersData[i].event : i \in DOMAIN transfersData}
\* a sequence of numbers is strictly increasing
StrictlyIncreasing(q) == \A i \in 1..(Len(q) - 1) : q[i] < q[i + 1]

\* C15: for any transfer history and any set of free-hit gameweeks the
\* freeze points are strictly increasing (so without duplicates) and are
\* exactly gameweek 1 and the gameweeks with a transfer, less the free-hit
\* gameweeks.
C15_FreezePointsSortedUnique ==
    pc = "f_done" =>
        /\ StrictlyIncreasing(allFreezeGWs)
        /\ Range(allFreezeGWs) =
              ({1} \cup EventsOf(upstream.transfers)) \ upstream.freeHitGWs

\* C15 witness: a history out of order with a repeated gameweek and a
\* transfer in gameweek 1, one of the transfer gameweeks being a free-hit
\* gameweek, and at least two freeze points left.
C15_Witness ==
    /\ pc = "f_done"
    /\ \E i, j \in DOMAIN upstream.transfers :
          /\ i < j
          /\ upstream.transfers[i].event > upstream.transfers[j].event
    /\ \E i, j \in DOMAIN upstream.transfers :
          i # j /\ upstream.transfers[i].event = upstream.transfers[j].event
    /\ 1 \in EventsOf(upstream.transfers)
    /\ EventsOf(upstream.transfers) \cap upstream.freeHitGWs # {}
    /\ Len(allFreezeGWs) >= 2

\* steps 1 to 6 of a what-if request are done
Fetched == pc = "branches" \/ (pc = "responded" /\ response.status = 200)
\* the gameweeks whose picks record has the free-hit chip active
FreeHitRecords ==
    {gw \in DOMAIN picksMap :
        picksMap[gw] # Null /\ picksMap[gw].active_chip = "freehit"}

\* C16: a gameweek whose picks record has the free-hit chip active is no
\* freeze point and no branch is frozen at it, whether or not a transfer was
\* recorded in it and also when it is gameweek 1.
C16_FreeHitNeverFrozen ==
    Fetched =>
        \A gw \in FreeHitRecords :
            /\ gw \notin Range(allFreezeGWs)
            /\ \A i \in DOMAIN branches : branches[i].freezeGW # gw

\* C16 witness: an answered request with a free-hit gameweek in which
\* transfers were recorded, and with branches of other freeze points before
\* and after it.
C16_Witness ==
    /\ Responded
    /\ response.status = 200
    /\ \E gw \in FreeHitRecords :
          /\ gw \in EventsOf(upstream.transfers)
          /\ \E i, j \in DOMAIN response.branches :
                /\ response.branches[i].freezeGW < gw
                /\ response.branches[j].freezeGW > gw

\* the request was answered with status 200
Answered == Responded /\ response.status = 200
\* the picks record of a gameweek is null or was not fetched
NoRecord(gw) == gw \notin DOMAIN picksMap \/ picksMap[gw] = Null
\* the freeze gameweeks of a list of branches, in list order
FreezeGWsOf(branchList) == [i \in DOMAIN branchList |-> branchList[i].freezeGW]
\* the branch loop of the request, run over the freeze points freezeGWs
LoopOver(freezeGWs) ==
    BranchLoop(freezeGWs, picksMap, gwPlayerData, CurrentGW(upstream.events), <<>>)

\* C17: a freeze point whose picks record is null or was not fetched has
\* no branch, and the branches emitted are those of the same request with that
\* freeze point taken out of the sequence.
C17_AbsentPicksSkipped ==
    Answered =>
        \A f \in Range(allFreezeGWs) :
            NoRecord(f) =>
                /\ \A i \in DOMAIN response.branches : response.branches[i].freezeGW # f
                /\ response.branches =
                      LoopOver(SelectSeq(allFreezeGWs, LAMBDA g : g # f))

\* C17 witness: a freeze point with a null picks record between two freeze
\* points that got their branches.
C17_Witness ==
    /\ Answered
    /\ \E f \in Range(allFreezeGWs) :
          /\ f \in DOMAIN picksMap
          /\ picksMap[f] = Null
          /\ \E i, j \in DOMAIN response.branches :
                /\ response.branches[i].freezeGW < f
                /\ response.branches[j].freezeGW > f

\* C18: the branches are, in order, the freeze points processed so far
\* that have a picks record: strictly ascending and one branch per freeze
\* point.
C18_BranchesInFreezeOrder ==
    Fetched =>
        LET done == SubSeq(allFreezeGWs, 1, Min({fi - 1, Len(allFreezeGWs)}))
        IN  /\ FreezeGWsOf(branches) = SelectSeq(done, LAMBDA f : ~NoRecord(f))
            /\ StrictlyIncreasing(FreezeGWsOf(branches))
            /\ pc = "responded" =>
                  /\ response.branches = branches
                  /\ done = allFreezeGWs

\* C18 witness: an answer with three branches.
C18_Witness ==
    /\ Answered
    /\ Len(response.branches) >= 3

\* a list of branches ordered by freezeGW
RECURSIVE InsertByFreezeGW(_, _)
InsertByFreezeGW(sorted, b) ==
    IF sorted = <<>> THEN <<b>>
    ELSE IF b.freezeGW < Head(sorted).freezeGW THEN <<b>> \o sorted
    ELSE <<Head(sorted)>> \o InsertByFreezeGW(Tail(sorted), b)
RECURSIVE OrderByFreezeGW(_)
OrderByFreezeGW(branchList) ==
    IF branchList = <<>> THEN <<>>
    ELSE InsertByFreezeGW(OrderByFreezeGW(Tail(branchList)), Head(branchList))
Reverse(q) == [i \in DOMAIN q |-> q[Len(q) + 1 - i]]

NotFoundGWs ==
    {gw \in 1..CurrentGW(upstream.events) : PicksStatus(upstream, gw) = 404}

\* C20 (as claimed): a request in which the picks endpoint answers 404 for
\* some gameweek, every other fetch succeeding, is answered with status 200
\* and with a branch for every freeze point whose picks are present.
C20_NotFoundPicksTolerated ==
    (Responded /\ NotFoundGWs # {} /\ NoTableGWs = {}) =>
        /\ response.status = 200
        /\ FreezeGWsOf(response.branches) =
              SelectSeq(allFreezeGWs, LAMBDA f : ~NoRecord(f))

(***************************************************************************)
(* Vocabulary of the contribution claims.                                  *)
(***************************************************************************)
\* the gameweek of the last loop iteration, once one has run
LastGW == upstream.finishedGWs[gwi - 1]
\* the last iteration ran on a picks record with a picks array
ContribDone ==
    /\ pc = "c_compute"
    /\ gwi > 1
    /\ managerPicks[LastGW] # Null
    /\ HasPicks(managerPicks[LastGW])

\* C7: under bench boost the effective lineup is every input pick with its
\* stored multiplier, in input order, with no substitution, so it has as
\* many entries as the input picks.
C7_BenchBoostBypassesResolver ==
    (ContribDone /\ managerPicks[LastGW].active_chip = "bboost") =>
        LET ps == managerPicks[LastGW].picks
        IN  /\ Len(effectivePicks) = Len(ps)
            /\ Len(effectivePicks) = Cardinality(Slots)
            /\ \A i \in DOMAIN ps :
                  /\ effectivePicks[i].element = ps[i].element
                  /\ effectivePicks[i].multiplier = ps[i].multiplier

\* C7 witness: a bench-boost gameweek in which a starter had no minutes
\* while a bench player had some.
C7_Witness ==
    /\ ContribDone
    /\ managerPicks[LastGW].active_chip = "bboost"
    /\ OutStarters(managerPicks[LastGW].picks, gwPlayerData[LastGW]) # {}
    /\ PlayingBench(managerPicks[LastGW].picks, gwPlayerData[LastGW]) # {}

(***************************************************************************)
(* Vocabulary of the positive-contribution claim.                          *)
(***************************************************************************)
\* what the entries of a lineup for one player add up to, counting only the
\* strictly positive contributions
PositiveSum(eff, gwData, e) ==
    SumSeq([i \in DOMAIN eff |->
               IF eff[i].element = e /\ RawPoints(gwData, e) * eff[i].multiplier > 0
               THEN RawPoints(gwData, e) * eff[i].multiplier
               ELSE 0])

TotalOf(totals, e) == IF e \in DOMAIN totals THEN totals[e] ELSE 0

\* the gameweek iteration that is about to run has a picks array
Processing ==
    /\ managerPicks[upstream.finishedGWs[gwi]] # Null
    /\ HasPicks(managerPicks[upstream.finishedGWs[gwi]])

\* C21: in the per-player contribution breakdown, one gameweek iteration
\* adds to each player's total exactly the strictly positive contributions
\* (points x multiplier) of the effective lineup; zero and negative
\* contributions and multiplier-0 picks add nothing, so no total ever
\* decreases, every stored total is > 0 and every player listed in the
\* response has points > 0.
C21_OnlyPositiveContributionsCount ==
    [][/\ (pc = "c_compute" /\ gwi' = gwi + 1) =>
            /\ \A e \in DOMAIN playerTotals :
                  e \in DOMAIN playerTotals' /\ playerTotals'[e] >= playerTotals[e]
            /\ \A e \in DOMAIN playerTotals' :
                  /\ playerTotals'[e] > 0
                  /\ playerTotals'[e] - TotalOf(playerTotals, e) =
                        IF Processing
                        THEN PositiveSum(effectivePicks',
                                         gwPlayerData[upstream.finishedGWs[gwi]], e)
                        ELSE 0
       /\ pc' = "c_responded" =>
            /\ \A i \in DOMAIN response'.players : response'.players[i].points > 0
            /\ {response'.players[i].id : i \in DOMAIN response'.players}
                  = DOMAIN playerTotals
      ]_vars

\* C21 witness: after at least two gameweeks, the last lineup holds a player
\* with a negative contribution who already has a positive total, a player
\* with a zero contribution under a positive multiplier, and a multiplier-0
\* pick.
C21_Witness ==
    /\ ContribDone
    /\ gwi >= 3
    /\ \E i \in DOMAIN effectivePicks :
          /\ Contributed(effectivePicks[i], gwPlayerData[LastGW]) < 0
          /\ effectivePicks[i].element \in DOMAIN playerTotals
    /\ \E i \in DOMAIN effectivePicks :
          /\ effectivePicks[i].multiplier > 0
          /\ Contributed(effectivePicks[i], gwPlayerData[LastGW]) = 0
    /\ \E i \in DOMAIN effectivePicks : effectivePicks[i].multiplier = 0

(***************************************************************************)
(* Vocabulary of the season-data claims.                                   *)
(***************************************************************************)
SeasonAnswered == pc = "s_responded" /\ response.status = 200

\* the gameweeks the season loop has processed so far
ProcessedGWs == SubSeq(FinishedGWs(upstream.events), 1, gwi - 1)

\* the automatic_subs list upstream gave for a gameweek, empty when there is
\* no picks record or no such list
UpstreamSubs(gw) ==
    IF managerPicks[gw] # Null /\ "automatic_subs" \in DOMAIN managerPicks[gw]
    THEN managerPicks[gw].automatic_subs
    ELSE <<>>

\* the players a simulation of the substitutions would bring in
SimulatedIn(gw) ==
    LET ps == managerPicks[gw].picks
        l == simulateAutoSubs(ps, gwPlayerData[gw])
    IN  {l[i].element : i \in DOMAIN l} \ {p.element : p \in StarterPicks(ps)}

\* C22: the season auto-sub total is the sum, over the finished gameweeks
\* processed so far and over each upstream automatic_subs entry of the
\* gameweek, of the points of the substituted-in player in that gameweek's
\* stats, an absent stat counting 0; the response reports that total.
C22_AutoSubTotalFromUpstream ==
    /\ pc = "s_compute" =>
          autoSubTotals =
              SumSeq([k \in DOMAIN ProcessedGWs |->
                  SumSeq([i \in DOMAIN UpstreamSubs(ProcessedGWs[k]) |->
                      RecordPoints(gwPlayerData[ProcessedGWs[k]],
                                   UpstreamSubs(ProcessedGWs[k])[i].element_in)])])
    /\ SeasonAnswered =>
          response.totalAutoSubPoints =
              SumSeq([k \in DOMAIN ProcessedGWs |->
                  SumSeq([i \in DOMAIN UpstreamSubs(ProcessedGWs[k]) |->
                      RecordPoints(gwPlayerData[ProcessedGWs[k]],
                                   UpstreamSubs(ProcessedGWs[k])[i].element_in)])])

\* C22 witness: an answered request with a gameweek whose upstream list
\* brings in a player with points that a simulation would not bring in,
\* and a player without stat record; another gameweek has no picks record.
C22_Witness ==
    /\ SeasonAnswered
    /\ response.totalAutoSubPoints > 0
    /\ \E gw \in DOMAIN managerPicks : managerPicks[gw] = Null
    /\ \E gw \in DOMAIN managerPicks :
          /\ managerPicks[gw] # Null
          /\ HasPicks(managerPicks[gw])
          /\ \E i \in DOMAIN UpstreamSubs(gw) :
                /\ UpstreamSubs(gw)[i].element_in \notin SimulatedIn(gw)
                /\ RecordPoints(gwPlayerData[gw], UpstreamSubs(gw)[i].element_in) > 0
          /\ \E i \in DOMAIN UpstreamSubs(gw) :
                UpstreamSubs(gw)[i].element_in \notin DOMAIN gwPlayerData[gw]

(***************************************************************************)
(* Vocabulary of the claim on the used-bench set.                          *)
(***************************************************************************)
\* the pick of S with exactly n - 1 picks of S in lower slots
NthLowest(S, n) ==
    CHOOSE p \in S : Cardinality({q \in S : q.position < p.position}) = n - 1

\* What the picks ps and the table t of one gameweek give for the starter
\* s, nothing else being looked at: s itself when s played; otherwise the
\* starters without minutes take the bench players with minutes in slot
\* order, one each, as long as there are any.
EntryFrom(ps, t, s) ==
    LET rank == Cardinality({o \in OutStarters(ps, t) : o.position < s.position}) + 1
    IN  IF Played(t, s.element) \/ rank > Cardinality(PlayingBench(ps, t))
        THEN Entry(s.element, s.multiplier)
        ELSE Entry(NthLowest(PlayingBench(ps, t), rank).element, s.multiplier)

\* the bench players of replay entry k that are in its lineup
SubbedIn(k) ==
    {b.element : b \in {x \in BenchPicks(ReplayPicks(k)) :
                            InLineup(locals.replay[k].lineup, x.element)}}

\* C23: the used-bench set does not carry over between resolver calls: in
\* every gameweek of a branch the lineup is what that gameweek's picks and
\* stats alone give, so a bench player substituted in at gameweek g is
\* substituted in again at g+1 whenever the picks and stats of g+1 call for
\* him.
C23_UsedBenchSetIsPerCall ==
    HaveBranch =>
        \A k \in DOMAIN locals.replay :
            /\ Len(locals.replay[k].lineup) = NumStarters
            /\ \A s \in StarterPicks(ReplayPicks(k)) :
                  locals.replay[k].lineup[s.position]
                      = EntryFrom(ReplayPicks(k), ReplayTable(k), s)

\* C23 witness: a branch in which the same bench player is substituted in
\* at two consecutive gameweeks.
C23_Witness ==
    /\ HaveBranch
    /\ \E k \in DOMAIN locals.replay :
          /\ k + 1 \in DOMAIN locals.replay
          /\ SubbedIn(k) \cap SubbedIn(k + 1) # {}

(***************************************************************************)
(* Vocabulary of the frame claim.                                          *)
(***************************************************************************)
\* the picks map as step 3 built it from the upstream answers
FetchedMap ==
    [gw \in 1..CurrentGW(upstream.events) |->
        IF HasPicks(FetchedPicks(upstream)[gw].body)
        THEN FetchedPicks(upstream)[gw].body
        ELSE Null]

FetchReturned == pc = "returned"
IsOk(a) == a # NetworkError /\ ResponseOk(a)
Is404(a) == a # NetworkError /\ a.status = 404
\* no attempt of the call can be answered with an ok response
AllFailed == \A i \in DOMAIN upstream.answers : ~IsOk(upstream.answers[i])
\* what fetch gave at the last attempt made
LastAnswer == upstream.answers[call.fetches]

FirstOkOr404 ==
    LET S == {i \in DOMAIN upstream.answers :
                 IsOk(upstream.answers[i]) \/ Is404(upstream.answers[i])}
    IN  IF S = {} THEN 0 ELSE Min(S)

\* C26: fetchPicksSafe returns null as soon as a response has status 404,
\* without sleeping and without a further attempt, and does not throw
\* because of it; it returns the response as soon as one attempt is ok.
C26_NullOn404 ==
    (upstream.fn = "fetchPicksSafe" /\ FirstOkOr404 > 0) =>
        /\ call.fetches <= FirstOkOr404
        /\ Len(call.waits) <= FirstOkOr404 - 1
        /\ FetchReturned =>
              /\ call.fetches = FirstOkOr404
              /\ Len(call.waits) = FirstOkOr404 - 1
              /\ call.result = IF Is404(LastAnswer) THEN Null ELSE LastAnswer

\* C26 witness: a first attempt that failed otherwise, a 404 at the second
\* attempt, and a third attempt that would have been ok.
C26_Witness ==
    /\ FetchReturned
    /\ upstream.fn = "fetchPicksSafe"
    /\ ~IsOk(upstream.answers[1]) /\ ~Is404(upstream.answers[1])
    /\ Is404(upstream.answers[2])
    /\ IsOk(upstream.answers[3])
    /\ call.result = Null

\* what the contract of the retrying functions says of a state
RetryContract ==
    /\ call.fetches <= RetriesOf(upstream.fn)
    /\ Len(call.waits) < RetriesOf(upstream.fn)
    /\ FetchReturned =>
          /\ call.fetches >= 1
          /\ Len(call.waits) = call.fetches - 1
          /\ \A i \in 1..(call.fetches - 1) : ~IsOk(upstream.answers[i])
          /\ IF IsOk(LastAnswer) THEN call.result = LastAnswer
             ELSE IF upstream.fn = "fetchPicksSafe"
             THEN /\ call.result = IF LastAnswer = NetworkError THEN Thrown ELSE Null
                  /\ LastAnswer = NetworkError =>
                        call.fetches = RetriesOf(upstream.fn)
             ELSE /\ call.result = Thrown
                  /\ call.fetches = RetriesOf(upstream.fn)

\* C28: a call of fetchWithRetry ends after at most retries fetches: it
\* returns the first ok response and fetches no more; when no attempt is ok
\* it throws, never returning a non-ok response, and it does not sleep after
\* its final attempt.  fetchPicksSafe returns null where fetchWithRetry
\* would throw after a final attempt that ended with a non-ok status, and
\* throws when its final attempt raised a network error.
C28_RetryTerminates == []RetryContract /\ <>FetchReturned

\* C28 witness: fetchPicksSafe threw, after a fourth attempt that raised a
\* network error.
C28_Witness ==
    /\ FetchReturned
    /\ upstream.fn = "fetchPicksSafe"
    /\ call.result = Thrown
    /\ call.fetches = SharedRetries

(***************************************************************************)
(* Vocabulary of the batchFetch claim.                                     *)
(***************************************************************************)
\* the number of the batch task t belongs to, from 0
BatchOf(t) == (t - 1) \div upstream.batchSize
\* the tasks that have been started
Started == running \cup Range(settled)
\* the number of batches n tasks make
Batches == (upstream.tasks + upstream.batchSize - 1) \div upstream.batchSize

\* C27: batchFetch runs the tasks in consecutive batches of at most
\* batchSize: a task is started only when every task of the earlier batches
\* has completed, at most batchSize tasks are in flight, one delay is taken
\* after each batch but the last one, and the returned results are in task
\* order whatever the order in which the tasks of a batch completed.
C27_BatchesInOrder ==
    /\ \A t \in Started :
          \A u \in 1..upstream.tasks : BatchOf(u) < BatchOf(t) => u \in Range(settled)
    /\ \A t \in Started :
          \A u \in 1..upstream.tasks : BatchOf(u) = BatchOf(t) => u \in Started
    /\ Cardinality(running) <= upstream.batchSize
    /\ sleeps <= (IF Batches = 0 THEN 0 ELSE Batches - 1)
    /\ pc = "b_sleep" => running = {} /\ Len(results) < upstream.tasks
    /\ pc = "b_returned" =>
          /\ sleeps = (IF Batches = 0 THEN 0 ELSE Batches - 1)
          /\ results = [t \in 1..upstream.tasks |-> TaskValue(t)]
          /\ running = {}

\* C27 witness: batchFetch returned after at least two batches, the last
\* one shorter than batchSize, the tasks of a batch having completed in
\* another order than the task order.
C27_Witness ==
    /\ pc = "b_returned"
    /\ Batches >= 2
    /\ upstream.tasks % upstream.batchSize # 0
    /\ \E j \in 1..(Len(settled) - 1) : settled[j] > settled[j + 1]

(***************************************************************************)
(* Vocabulary of the response-status claim.                                *)
(***************************************************************************)
\* the league standings endpoint answers 'Not found.'
StandingsSayNotFound == upstream.standings \in {"detail", "notfound"}

\* a fetch of the season-data request cannot succeed: the standings or the
\* live data of a finished gameweek are answered with an error status, or
\* the picks of a finished gameweek with a network error
SomeFetchFails ==
    \/ upstream.standings = "error"
    \/ \E gw \in Range(FinishedGWs(upstream.events)) :
          upstream.answers[gw][2] = 0 \/ upstream.answers[gw][1] = "neterr"

\* C29: a season-data request ends with a response whose status is 400 when
\* leagueId is missing, 404 when the league standings answer 'Not found.',
\* 500 when a fetch throws, and 200 otherwise.
C29_StatusByCase ==
    pc = "s_responded" =>
        response.status =
            IF ~upstream.leagueId THEN 400
            ELSE IF StandingsSayNotFound THEN 404
            ELSE IF SomeFetchFails THEN 500
            ELSE 200

(***************************************************************************)
(* Vocabulary of the lineup-shape claim.                                   *)
(***************************************************************************)
\* the rank of a starter among the starters, by ascending slot
RankOf(starters, s) == 1 + Cardinality({q \in starters : q.position < s.position})

\* the bench picks whose player is in the lineup
BenchInLineup == {b \in BenchPicks(picks) : InLineup(lineup, b.element)}

\* the lineup l has one entry per starter, in slot order, with the starter's
\* multiplier and a player who is the starter or comes from the bench
KeepsShape(l, starters, benchElements) ==
    /\ Len(l) = Cardinality(starters)
    /\ \A s \in starters :
          /\ l[RankOf(starters, s)].multiplier = s.multiplier
          /\ l[RankOf(starters, s)].element \in benchElements \cup {s.element}

\* C30: the lineup returned by simulateAutoSubs has exactly one entry per
\* starter of the input, and the multiplier of entry i is the multiplier of
\* the starter of rank i by ascending slot: a substitution changes the player
\* of an entry, not the number of entries nor a multiplier, and the
\* multiplier stored on a bench player does not reach the output.
C30_LineupKeepsStarterMultipliers ==
    Resolved =>
        KeepsShape(lineup, StarterPicks(picks),
                   {b.element : b \in BenchPicks(picks)})

\* C30 witness: picks listed out of slot order, two substitutions, one of
\* them for the captain by a bench player whose own multiplier is another.
C30_Witness ==
    /\ Resolved
    /\ picks # SortByPosition(picks)
    /\ Cardinality(BenchInLineup) = 2
    /\ \E b \in BenchInLineup :
          \E i \in DOMAIN lineup :
              /\ lineup[i].element = b.element
              /\ lineup[i].multiplier = 2
              /\ b.multiplier # 2

====
